---- MODULE Spec2Model ----
(***************************************************************************)
(* A model of the product-variants-core engine: the key codec, the         *)
(* combination generator, the constraint validator and the reconciler.     *)
(*                                                                         *)
(* Strings on which the code does text work (keys, option values, labels,  *)
(* signatures, skus) are sequences of one-character strings, so that       *)
(* join, split, trim, startsWith and Number() are computed and not         *)
(* assumed.  Type names and constraint ids are only ever compared with     *)
(* ===, so they are plain TLA+ strings.                                    *)
(***************************************************************************)
EXTENDS Integers, Sequences, FiniteSets, TLC

VARIABLES
    pc,                     \* which entry point is being exercised and whether it has returned
    variantTypes,           \* generateChildVariants: variantTypes
    existing,               \* options.existing (generateChildVariants and reconcileChildVariants)
    filterInvalidTitles,    \* options.filterInvalidTitles
    useFactory,             \* TRUE when options.createDefault is supplied
    children,               \* the array generateChildVariants returned
    previousVariantTypes,   \* reconcileChildVariants: previousVariantTypes
    nextVariantTypes,       \* reconcileChildVariants: nextVariantTypes
    trimMatch,              \* options.trimMatch
    reconciled,             \* the {children, dropped} reconcileChildVariants returned
    selection,              \* validateSelection: selection
    constraints,            \* validateSelection: constraints
    validation,             \* the {valid, blockedBy} validateSelection returned
    variantType,            \* getAvailableOptions: variantType
    available,              \* the option values getAvailableOptions returned
    logicCondition,         \* isConditionMet: condition
    conditionMet,           \* the boolean isConditionMet returned
    baseProduct,            \* applyModifiers: baseProduct
    modifiers,              \* applyModifiers: modifiers
    derived,                \* the record applyModifiers returned
    indexTuple,             \* toVariantKey: indices1Based
    keySep,                 \* the separator argument of toVariantKey and parseVariantKey
    keyText,                \* parseVariantKey: variantKey
    parsed                  \* the array parseVariantKey returned

vars == <<pc, variantTypes, existing, filterInvalidTitles, useFactory, children,
          previousVariantTypes, nextVariantTypes, trimMatch, reconciled,
          selection, constraints, validation,
          variantType, available, logicCondition, conditionMet, baseProduct, modifiers, derived,
          indexTuple, keySep, keyText, parsed>>

\* the arguments and results of getAvailableOptions, isConditionMet and applyModifiers
queryVars == <<variantType, available, logicCondition, conditionMet, baseProduct, modifiers, derived>>

codecVars == <<indexTuple, keySep, keyText, parsed>>

(***************************************************************************)
(* Bounds of the model.                                                    *)
(***************************************************************************)
MaxTypes == 3
MaxOptions == 2
MaxCombos == 8
MaxMergeTypes == 2
MaxExisting == 2
MaxRecTypes == 2
MaxRecCombos == 2
MaxSelection == 2
MaxConstraints == 2
MaxDepth == 2
MaxModifiers == 2
MaxTransforms == 2
MaxTuple == 2
MaxIndex == 11
MaxKeyLen == 4

(***************************************************************************)
(* JavaScript values.                                                      *)
(***************************************************************************)
Null == "null"
Undefined == "undefined"

\* String.prototype.trim strips these; the model's alphabet has one blank.
IsWhitespace(c) == c = " "

RECURSIVE TrimStart(_)
TrimStart(s) ==
    IF s = <<>> THEN <<>>
    ELSE IF IsWhitespace(Head(s)) THEN TrimStart(Tail(s))
    ELSE s

RECURSIVE TrimEnd(_)
TrimEnd(s) ==
    IF s = <<>> THEN <<>>
    ELSE IF IsWhitespace(s[Len(s)]) THEN TrimEnd(SubSeq(s, 1, Len(s) - 1))
    ELSE s

Trim(s) == TrimEnd(TrimStart(s))

LowerOf(c) ==
    CASE c = "R" -> "r"
      [] c = "B" -> "b"
      [] c = "M" -> "m"
      [] c = "S" -> "s"
      [] c = "C" -> "c"
      [] OTHER -> c

ToLowerCase(s) == [i \in 1..Len(s) |-> LowerOf(s[i])]

StartsWith(s, p) == Len(p) <= Len(s) /\ SubSeq(s, 1, Len(p)) = p

EndsWith(s, p) == Len(p) <= Len(s) /\ SubSeq(s, Len(s) - Len(p) + 1, Len(s)) = p

\* Array.prototype.join over an array of strings
RECURSIVE Join(_, _)
Join(strs, sep) ==
    IF strs = <<>> THEN <<>>
    ELSE IF Len(strs) = 1 THEN strs[1]
    ELSE strs[1] \o sep \o Join(Tail(strs), sep)

\* String.prototype.split with a non-empty separator
RECURSIVE SplitFrom(_, _, _)
SplitFrom(s, sep, cur) ==
    IF s = <<>> THEN <<cur>>
    ELSE IF StartsWith(s, sep) THEN <<cur>> \o SplitFrom(SubSeq(s, Len(sep) + 1, Len(s)), sep, <<>>)
    ELSE SplitFrom(Tail(s), sep, Append(cur, Head(s)))

Split(s, sep) == SplitFrom(s, sep, <<>>)

Digits == <<"0", "1", "2", "3", "4", "5", "6", "7", "8", "9">>

IsDigit(c) == \E i \in 1..10 : Digits[i] = c

DigitVal(c) == (CHOOSE i \in 1..10 : Digits[i] = c) - 1

RECURSIVE DecimalValue(_, _)
DecimalValue(s, acc) ==
    IF s = <<>> THEN acc ELSE DecimalValue(Tail(s), acc * 10 + DigitVal(Head(s)))

\* String(n) for an integer n
RECURSIVE NatToString(_)
NatToString(n) ==
    IF n < 10 THEN <<Digits[n + 1]>>
    ELSE NatToString(n \div 10) \o <<Digits[(n % 10) + 1]>>

NumberToString(n) == IF n < 0 THEN <<"-">> \o NatToString(0 - n) ELSE NatToString(n)

\* Number(s) followed by the Number.isFinite test of parseVariantKey: blank
\* text is 0, an optionally signed run of digits is its value, anything else
\* of the model's alphabet is NaN, which parseVariantKey turns into 0.
FiniteNumberOrZero(s) ==
    LET t == Trim(s) IN
    IF t = <<>> THEN 0
    ELSE IF \A i \in 1..Len(t) : IsDigit(t[i]) THEN DecimalValue(t, 0)
    ELSE IF t[1] = "-" /\ Len(t) > 1 /\ \A i \in 2..Len(t) : IsDigit(t[i])
         THEN 0 - DecimalValue(Tail(t), 0)
    ELSE 0

(***************************************************************************)
(* Key codec (src/index.ts).                                               *)
(***************************************************************************)
KeySeparator == <<"-">>
LabelSeparator == <<" ", "-", " ">>

\* remaining.length ? remaining.map((combo) => [idx, ...combo]) : [[idx]]
ExtendCombos(idx, remaining) ==
    IF Len(remaining) # 0
    THEN [j \in 1..Len(remaining) |-> <<idx>> \o remaining[j]]
    ELSE << <<idx>> >>

\* first.flatMap(...) for first = [from, ..., firstCount]
RECURSIVE FlatMapFirst(_, _, _)
FlatMapFirst(from, firstCount, remaining) ==
    IF from > firstCount THEN <<>>
    ELSE ExtendCombos(from, remaining) \o FlatMapFirst(from + 1, firstCount, remaining)

RECURSIVE cartesianIndexProduct(_)
cartesianIndexProduct(optionCounts) ==
    IF optionCounts = <<>> THEN <<>>
    ELSE IF Head(optionCounts) <= 0 THEN <<>>
    ELSE FlatMapFirst(1, Head(optionCounts), cartesianIndexProduct(Tail(optionCounts)))

toVariantKey(indices1Based, separator) ==
    Join([i \in 1..Len(indices1Based) |-> NumberToString(indices1Based[i])], separator)

\* a parse without the `if (!variantKey) return []` guard
parseVariantKey_NoEmptyGuard(variantKey, separator) ==
    LET parts == Split(variantKey, separator)
    IN  [i \in 1..Len(parts) |-> FiniteNumberOrZero(parts[i])]

parseVariantKey(variantKey, separator) ==
    IF variantKey = <<>> THEN <<>>
    ELSE LET parts == Split(variantKey, separator)
         IN  [i \in 1..Len(parts) |-> FiniteNumberOrZero(parts[i])]

Max(a, b) == IF a >= b THEN a ELSE b

\* a comparator with the operands of the subtraction swapped
sortVariantKeysAsc_Swapped(a, b, separator) ==
    LET ak == parseVariantKey(a, separator)
        bk == parseVariantKey(b, separator)
        len == Max(Len(ak), Len(bk))
        av(i) == IF i <= Len(ak) THEN ak[i] ELSE 0
        bv(i) == IF i <= Len(bk) THEN bk[i] ELSE 0
        diff == {i \in 1..len : av(i) # bv(i)}
    IN  IF diff = {} THEN 0
        ELSE LET i == CHOOSE k \in diff : \A m \in diff : k <= m
             IN  bv(i) - av(i)

sortVariantKeysAsc(a, b, separator) ==
    LET ak == parseVariantKey(a, separator)
        bk == parseVariantKey(b, separator)
        len == Max(Len(ak), Len(bk))
        av(i) == IF i <= Len(ak) THEN ak[i] ELSE 0
        bv(i) == IF i <= Len(bk) THEN bk[i] ELSE 0
        diff == {i \in 1..len : av(i) # bv(i)}
    IN  IF diff = {} THEN 0
        ELSE LET i == CHOOSE k \in diff : \A m \in diff : k <= m
             IN  av(i) - bv(i)

\* variantTypes[typeIndex]?.variantOptions?.[idx1Based - 1]?.value ?? ""
OptionValueAt(types, typePos, idx1Based) ==
    IF typePos \in 1..Len(types) /\ idx1Based \in 1..Len(types[typePos].variantOptions)
    THEN types[typePos].variantOptions[idx1Based]
    ELSE <<>>

variantKeyToLabel(variantKey, types, labelSeparator, keySeparator) ==
    LET indices == parseVariantKey(variantKey, keySeparator)
        values == [i \in 1..Len(indices) |-> OptionValueAt(types, i, indices[i])]
    IN  IF Len(types) > 1 THEN Join(values, labelSeparator) ELSE Join(values, <<>>)

variantKeyToSelection(variantKey, types, keySeparator) ==
    LET indices == parseVariantKey(variantKey, keySeparator)
    IN  [i \in 1..Len(indices) |->
            [typeIndex |-> i - 1,
             optionIndex1Based |-> indices[i],
             typeValue |-> IF i <= Len(types) THEN types[i].value ELSE "",
             optionValue |-> OptionValueAt(types, i, indices[i])]]

variantKeyToValues(variantKey, types, keySeparator) ==
    LET sel == variantKeyToSelection(variantKey, types, keySeparator)
    IN  [i \in 1..Len(sel) |-> sel[i].optionValue]

isUsableLabel(label, labelSeparator) ==
    LET trimmed == Trim(label) IN
    IF trimmed = <<>> THEN FALSE
    ELSE IF StartsWith(trimmed, Trim(labelSeparator)) THEN FALSE
    ELSE IF EndsWith(trimmed, Trim(labelSeparator)) THEN FALSE
    ELSE IF StartsWith(trimmed, <<"-">>) \/ EndsWith(trimmed, <<"-">>) THEN FALSE
    ELSE TRUE

(***************************************************************************)
(* Combination generator (src/index.ts).                                   *)
(***************************************************************************)
\* the record generateChildVariants synthesizes for a key nobody supplied
DefaultChild(key) ==
    [variantKey |-> key, title |-> <<>>, sku |-> <<>>, cost |-> Null,
     stock |-> Null, imageIds |-> <<>>]

\* a caller-supplied createDefault: a record that is recognisably not the default
createDefault(key) ==
    [variantKey |-> key, title |-> <<>>, sku |-> <<"N">>, cost |-> 0,
     stock |-> 0, imageIds |-> <<>>]

\* new Map(existing.map(c => [c.variantKey, c])): a later entry replaces an
\* earlier one with the same key
ExistingMapHas(recs, key) == \E i \in 1..Len(recs) : recs[i].variantKey = key

\* a lookup that hands out the stored key with the default fields
ExistingMapGet_Defaulted(recs, key) == DefaultChild(key)

ExistingMapGet(recs, key) ==
    LET last == CHOOSE i \in 1..Len(recs) :
                    /\ recs[i].variantKey = key
                    /\ \A j \in 1..Len(recs) : recs[j].variantKey = key => j <= i
    IN  recs[last]

\* Array.prototype.sort with sortVariantKeysAsc on variantKey: a stable sort
\* (child goes behind every element that does not compare greater than it)
RECURSIVE InsertByKey(_, _, _)
InsertByKey(sorted, child, separator) ==
    IF sorted = <<>> THEN <<child>>
    ELSE IF sortVariantKeysAsc(sorted[Len(sorted)].variantKey, child.variantKey, separator) <= 0
         THEN Append(sorted, child)
    ELSE Append(InsertByKey(SubSeq(sorted, 1, Len(sorted) - 1), child, separator),
                sorted[Len(sorted)])

RECURSIVE SortFrom(_, _, _, _)
SortFrom(sorted, cs, from, separator) ==
    IF from > Len(cs) THEN sorted
    ELSE SortFrom(InsertByKey(sorted, cs[from], separator), cs, from + 1, separator)

SortByKey(cs, separator) == SortFrom(<<>>, cs, 1, separator)

OptionCounts(types) == [i \in 1..Len(types) |-> Len(types[i].variantOptions)]

\* sorted.filter((child) => isUsableLabel(variantKeyToLabel(child.variantKey, ...)))
HasUsableLabel(child, types) ==
    isUsableLabel(variantKeyToLabel(child.variantKey, types, LabelSeparator, KeySeparator),
                  LabelSeparator)

RECURSIVE FilterUsable(_, _, _, _)
FilterUsable(kept, cs, from, types) ==
    IF from > Len(cs) THEN kept
    ELSE FilterUsable(IF HasUsableLabel(cs[from], types) THEN Append(kept, cs[from]) ELSE kept,
                      cs, from + 1, types)

\* a merge that makes a plain default for a key that has an existing record
ChildFor_FreshWhenSeen(indices, recs, factory) ==
    LET key == toVariantKey(indices, KeySeparator) IN
    IF ExistingMapHas(recs, key) THEN DefaultChild(key)
    ELSE IF factory THEN createDefault(key)
    ELSE DefaultChild(key)

\* the child made for one index tuple
ChildFor(indices, recs, factory) ==
    LET key == toVariantKey(indices, KeySeparator) IN
    IF ExistingMapHas(recs, key) THEN ExistingMapGet(recs, key)
    ELSE IF factory THEN createDefault(key)
    ELSE DefaultChild(key)

\* factory: options.createDefault is supplied; filter: options.filterInvalidTitles
generateChildVariants(types, recs, factory, filter) ==
    LET combos == cartesianIndexProduct(OptionCounts(types))
        made == [i \in 1..Len(combos) |-> ChildFor(combos[i], recs, factory)]
        sorted == SortByKey(made, KeySeparator)
    IN  IF ~filter THEN sorted ELSE FilterUsable(<<>>, sorted, 1, types)

(***************************************************************************)
(* Reconciler (src/index.ts).                                              *)
(***************************************************************************)
SignatureDelimiter == <<"SOH">>

\* options.caseInsensitiveMatch is left at its default
CaseInsensitiveMatch == FALSE

NormalizeValue(v, caseInsensitive, trim) ==
    LET x == IF trim THEN Trim(v) ELSE v
    IN  IF caseInsensitive THEN ToLowerCase(x) ELSE x

\* a signature made of the first axis's value alone
toSignature_FirstValueOnly(optionValues, caseInsensitive, trim) ==
    IF optionValues = <<>> THEN <<>>
    ELSE NormalizeValue(optionValues[1], caseInsensitive, trim)

toSignature(optionValues, caseInsensitive, trim) ==
    Join([i \in 1..Len(optionValues) |-> NormalizeValue(optionValues[i], caseInsensitive, trim)],
         SignatureDelimiter)

\* the signature of a record whose key indexes types
SignatureOf(child, types, trim) ==
    toSignature(variantKeyToValues(child.variantKey, types, KeySeparator),
                CaseInsensitiveMatch, trim)

\* the signatures of records whose keys index types, in order
SignaturesOf(recs, types, trim) == [i \in 1..Len(recs) |-> SignatureOf(recs[i], types, trim)]

\* previousBySignature, built from the existing records and their
\* signatures: the first record with a signature keeps it
PreviousHas(prevSigs, sig) == \E i \in 1..Len(prevSigs) : prevSigs[i] = sig

\* a map in which a later record with a signature replaces an earlier one
PreviousGet_LastWins(recs, prevSigs, sig) ==
    LET last == CHOOSE i \in 1..Len(prevSigs) :
                    /\ prevSigs[i] = sig
                    /\ \A j \in 1..Len(prevSigs) : prevSigs[j] = sig => j <= i
    IN  recs[last]

PreviousGet(recs, prevSigs, sig) ==
    LET first == CHOOSE i \in 1..Len(prevSigs) :
                     /\ prevSigs[i] = sig
                     /\ \A j \in 1..Len(prevSigs) : prevSigs[j] = sig => i <= j
    IN  recs[first]

\* a spread that forgets to overwrite the key
Carry_KeepsOldKey(prev, child) == prev

\* { ...prev, variantKey: child.variantKey }
Carry(prev, child) == [prev EXCEPT !.variantKey = child.variantKey]

\* a callback that falls back on an existing record with the child's key
Reattach_MergesByKey(child, sig, recs, prevSigs) ==
    IF PreviousHas(prevSigs, sig) THEN Carry(PreviousGet(recs, prevSigs, sig), child)
    ELSE IF ExistingMapHas(recs, child.variantKey) THEN ExistingMapGet(recs, child.variantKey)
    ELSE child

\* the .map callback over the freshly generated children: sig is child's
\* signature under the next types
Reattach(child, sig, recs, prevSigs) ==
    IF PreviousHas(prevSigs, sig) THEN Carry(PreviousGet(recs, prevSigs, sig), child)
    ELSE child

\* usedSignatures once the map has run
UsedSignatures(nextSigs, prevSigs) ==
    {nextSigs[i] : i \in {k \in 1..Len(nextSigs) : PreviousHas(prevSigs, nextSigs[k])}}

\* a filter callback with the negation lost
IsUnused_Negated(sig, used) == sig \in used

\* !usedSignatures.has(sig)
IsUnused(sig, used) == sig \notin used

\* existing.filter((child) => !usedSignatures.has(sig))
RECURSIVE DroppedFrom(_, _, _, _)
DroppedFrom(from, recs, prevSigs, used) ==
    IF from > Len(recs) THEN <<>>
    ELSE (IF IsUnused(prevSigs[from], used) THEN <<recs[from]>> ELSE <<>>)
         \o DroppedFrom(from + 1, recs, prevSigs, used)

ReconcileWith(fresh, nextSigs, recs, prevSigs) ==
    [children |-> [i \in 1..Len(fresh) |-> Reattach(fresh[i], nextSigs[i], recs, prevSigs)],
     dropped |-> DroppedFrom(1, recs, prevSigs, UsedSignatures(nextSigs, prevSigs))]

reconcileChildVariants(prevTypes, nextTypes, recs, factory, filter, trim) ==
    LET fresh == generateChildVariants(nextTypes, <<>>, factory, filter)
    IN  ReconcileWith(fresh, SignaturesOf(fresh, nextTypes, trim),
                      recs, SignaturesOf(recs, prevTypes, trim))

(***************************************************************************)
(* Condition evaluator and constraint validator (src/constraints.ts).      *)
(*                                                                         *)
(* A condition is a record with every field of both shapes: a leaf has     *)
(* typeValue set and no conditions, a group has typeValue undefined.  A    *)
(* leaf target (optionValue: string | string[]) is [isArray, items]: the   *)
(* string s is [isArray |-> FALSE, items |-> <<s>>].                       *)
(***************************************************************************)
Text(str) == [isArray |-> FALSE, items |-> <<str>>]

Array(strs) == [isArray |-> TRUE, items |-> strs]

Leaf(typeValue, target, operator) ==
    [typeValue |-> typeValue, optionValue |-> target, operator |-> operator, conditions |-> <<>>]

Group(operator, conds) ==
    [typeValue |-> Undefined, optionValue |-> Text(""), operator |-> operator, conditions |-> conds]

isSimpleCondition(c) == c.typeValue # Undefined

\* selection.find((s) => s.typeValue === typeValue)
IsSelected(sel, typeValue) == \E i \in 1..Len(sel) : sel[i].typeValue = typeValue

SelectedItem(sel, typeValue) ==
    sel[CHOOSE i \in 1..Len(sel) :
            /\ sel[i].typeValue = typeValue
            /\ \A j \in 1..(i - 1) : sel[j].typeValue # typeValue]

\* target.includes(val)
Includes(items, val) == \E i \in 1..Len(items) : items[i] = val

\* val === target, for target: string | string[]
StrictEquals(val, target) == ~target.isArray /\ target.items[1] = val

\* a switch whose not_in case forgets Array.isArray(target)
CompareLeaf_LooseNotIn(op, val, target) ==
    CASE op = "equals" -> StrictEquals(val, target)
      [] op = "not_equals" -> ~StrictEquals(val, target)
      [] op = "in" -> target.isArray /\ Includes(target.items, val)
      [] op = "not_in" -> ~Includes(target.items, val)
      [] OTHER -> FALSE

\* the switch of isConditionMet on the resolved operator
CompareLeaf(op, val, target) ==
    CASE op = "equals" -> StrictEquals(val, target)
      [] op = "not_equals" -> ~StrictEquals(val, target)
      [] op = "in" -> target.isArray /\ Includes(target.items, val)
      [] op = "not_in" -> target.isArray /\ ~Includes(target.items, val)
      [] OTHER -> FALSE

\* an operator default that never infers "in"
ResolvedOperator_AlwaysEquals(condition) ==
    IF condition.operator = Undefined THEN "equals" ELSE condition.operator

\* op = condition.operator, or inferred from the target when it is left out
ResolvedOperator(condition) ==
    IF condition.operator = Undefined
    THEN (IF condition.optionValue.isArray THEN "in" ELSE "equals")
    ELSE condition.operator

\* a leaf evaluation in which an unselected type satisfies the negated operators
EvaluateLeaf_UnselectedNegates(sel, condition) ==
    IF ~IsSelected(sel, condition.typeValue)
    THEN ResolvedOperator(condition) \in {"not_equals", "not_in"}
    ELSE CompareLeaf(ResolvedOperator(condition),
                     SelectedItem(sel, condition.typeValue).optionValue,
                     condition.optionValue)

\* the leaf branch of isConditionMet
EvaluateLeaf(sel, condition) ==
    IF ~IsSelected(sel, condition.typeValue) THEN FALSE
    ELSE CompareLeaf(ResolvedOperator(condition),
                     SelectedItem(sel, condition.typeValue).optionValue,
                     condition.optionValue)

\* a group evaluation without the guard for an empty group
EvaluateGroup_NoEmptyGuard(operator, results) ==
    IF operator = "AND" THEN \A i \in 1..Len(results) : results[i]
    ELSE IF operator = "OR" THEN \E i \in 1..Len(results) : results[i]
    ELSE FALSE

\* the group branch of isConditionMet, on the results of the children
EvaluateGroup(operator, results) ==
    IF Len(results) = 0 THEN FALSE
    ELSE IF operator = "AND" THEN \A i \in 1..Len(results) : results[i]
    ELSE IF operator = "OR" THEN \E i \in 1..Len(results) : results[i]
    ELSE FALSE

RECURSIVE isConditionMet(_, _)
isConditionMet(sel, condition) ==
    IF isSimpleCondition(condition)
    THEN EvaluateLeaf(sel, condition)
    ELSE EvaluateGroup(condition.operator,
                       [i \in 1..Len(condition.conditions) |->
                           isConditionMet(sel, condition.conditions[i])])

\* a rule check whose disallow branch repeats the allow branch
ViolatesRule_AllowOnly(rule, val) == ~Includes(rule.options, val)

\* the check of the THEN rule against the selected option of the target type
ViolatesRule(rule, val) ==
    IF rule.action = "allow" THEN ~Includes(rule.options, val)
    ELSE IF rule.action = "disallow" THEN Includes(rule.options, val)
    ELSE FALSE

\* a loop body that takes a missing target selection for a violation
BlockedByOne_NeedsTarget(sel, constraint) ==
    IF isConditionMet(sel, constraint.if)
    THEN IF IsSelected(sel, constraint.then.typeValue)
         THEN IF ViolatesRule(constraint.then, SelectedItem(sel, constraint.then.typeValue).optionValue)
              THEN <<constraint.id>>
              ELSE <<>>
         ELSE <<constraint.id>>
    ELSE <<>>

\* one pass of the loop body of validateSelection: the ids it pushes
BlockedByOne(sel, constraint) ==
    IF isConditionMet(sel, constraint.if)
    THEN IF IsSelected(sel, constraint.then.typeValue)
         THEN IF ViolatesRule(constraint.then, SelectedItem(sel, constraint.then.typeValue).optionValue)
              THEN <<constraint.id>>
              ELSE <<>>
         ELSE <<>>
    ELSE <<>>

\* a loop that returns after its first pass
BlockedByFrom_FirstPassOnly(from, sel, cons) ==
    IF from > Len(cons) THEN <<>> ELSE BlockedByOne(sel, cons[from])

RECURSIVE BlockedByFrom(_, _, _)
BlockedByFrom(from, sel, cons) ==
    IF from > Len(cons) THEN <<>>
    ELSE BlockedByOne(sel, cons[from]) \o BlockedByFrom(from + 1, sel, cons)

\* a validator that stops at the first constraint that blocks
validateSelection_StopsAtFirst(sel, cons) ==
    LET blockedBy == BlockedByFrom(1, sel, cons)
    IN  [valid |-> Len(blockedBy) = 0,
         blockedBy |-> IF blockedBy = <<>> THEN <<>> ELSE <<blockedBy[1]>>]

validateSelection(sel, cons) ==
    LET blockedBy == BlockedByFrom(1, sel, cons)
    IN  [valid |-> Len(blockedBy) = 0, blockedBy |-> blockedBy]

\* an option filter that leaves the current entry for the type in place
HypotheticalSelection_KeepsCurrent(type, currentSelection, optionValue) ==
    Append(currentSelection, [typeValue |-> type.value, optionValue |-> optionValue])

\* nextSelection: the current selection without the entries for the type,
\* then the candidate option (of the fields the validator reads)
HypotheticalSelection(type, currentSelection, optionValue) ==
    Append(SelectSeq(currentSelection, LAMBDA s : s.typeValue # type.value),
           [typeValue |-> type.value, optionValue |-> optionValue])

\* variantType.variantOptions.filter((opt) => validateSelection(nextSelection, constraints).valid)
getAvailableOptions(type, currentSelection, cons) ==
    SelectSeq(type.variantOptions,
              LAMBDA opt : validateSelection(HypotheticalSelection(type, currentSelection, opt), cons).valid)

(***************************************************************************)
(* The modifier engine (modifiers.ts).                                     *)
(*                                                                         *)
(* A field value carries its typeof: "number" (num), "string" (str, a      *)
(* sequence of characters), "null", "undefined" or "object".               *)
(***************************************************************************)
Value(type, num, str) == [type |-> type, num |-> num, str |-> str]

\* a modifier condition check without the Array.isArray branch
ModifierConditionMet_StrictOnly(sel, cond) ==
    IF ~IsSelected(sel, cond.typeValue) THEN FALSE
    ELSE StrictEquals(SelectedItem(sel, cond.typeValue).optionValue, cond.optionValue)

\* isConditionMet of modifiers.ts: the operator and the children of the
\* condition are never read
ModifierConditionMet(sel, cond) ==
    IF ~IsSelected(sel, cond.typeValue) THEN FALSE
    ELSE LET val == SelectedItem(sel, cond.typeValue).optionValue
             target == cond.optionValue
         IN  IF target.isArray THEN Includes(target.items, val)
             ELSE val = target.items[1]

\* a numeric switch whose subtract case repeats the add case
ApplyNumeric_SubtractAdds(currentVal, changeVal, operation) ==
    CASE operation = "add" -> Value("number", currentVal.num + changeVal.num, <<>>)
      [] operation = "subtract" -> Value("number", currentVal.num + changeVal.num, <<>>)
      [] operation = "multiply" -> Value("number", currentVal.num * changeVal.num, <<>>)
      [] operation = "set" -> changeVal
      [] OTHER -> currentVal

\* the switch for a number and a numeric operand: the field's next value
ApplyNumeric(currentVal, changeVal, operation) ==
    CASE operation = "add" -> Value("number", currentVal.num + changeVal.num, <<>>)
      [] operation = "subtract" -> Value("number", currentVal.num - changeVal.num, <<>>)
      [] operation = "multiply" -> Value("number", currentVal.num * changeVal.num, <<>>)
      [] operation = "set" -> changeVal
      [] OTHER -> currentVal

\* a string switch that acts on string operands only
ApplyString_StringOperandOnly(currentVal, changeVal, operation) ==
    IF changeVal.type # "string" THEN currentVal
    ELSE CASE operation = "add" -> Value("string", 0, currentVal.str \o changeVal.str)
           [] operation = "set" -> Value("string", 0, changeVal.str)
           [] OTHER -> currentVal

\* the switch for a string: String(changeVal) appended or put in its place
ApplyString(currentVal, changeVal, operation) ==
    LET text == IF changeVal.type = "number" THEN NumberToString(changeVal.num) ELSE changeVal.str
    IN  CASE operation = "add" -> Value("string", 0, currentVal.str \o text)
          [] operation = "set" -> Value("string", 0, text)
          [] OTHER -> currentVal

\* an initialization that only `set` performs
ApplyAbsent_SetOnly(currentVal, changeVal, operation) ==
    IF operation = "set" THEN changeVal ELSE currentVal

\* the fallback for a field that is null or undefined
ApplyAbsent(currentVal, changeVal, operation) ==
    IF operation \in {"set", "add"} THEN changeVal ELSE currentVal

\* an inner loop body that tests only the type of the current value
ApplyTransform_UncheckedOperand(result, action) ==
    LET currentVal == result[action.field]
        changeVal == action.value
    IN  [result EXCEPT ![action.field] =
            IF currentVal.type = "number"
            THEN (IF changeVal.type = "number"
                  THEN ApplyNumeric(currentVal, changeVal, action.operation)
                  ELSE IF action.operation = "set" THEN changeVal
                  ELSE IF action.operation = "add"
                       THEN Value("string", 0, NumberToString(currentVal.num) \o changeVal.str)
                  ELSE currentVal)
            ELSE IF currentVal.type = "string"
            THEN ApplyString(currentVal, changeVal, action.operation)
            ELSE IF currentVal.type \in {"null", "undefined"}
            THEN ApplyAbsent(currentVal, changeVal, action.operation)
            ELSE currentVal]

\* the body of the inner loop of applyModifiers: one action on the result
ApplyTransform(result, action) ==
    LET currentVal == result[action.field]
        changeVal == action.value
    IN  [result EXCEPT ![action.field] =
            IF currentVal.type = "number" /\ changeVal.type = "number"
            THEN ApplyNumeric(currentVal, changeVal, action.operation)
            ELSE IF currentVal.type = "string"
            THEN ApplyString(currentVal, changeVal, action.operation)
            ELSE IF currentVal.type \in {"null", "undefined"}
            THEN ApplyAbsent(currentVal, changeVal, action.operation)
            ELSE currentVal]

\* for (const action of mod.then)
RECURSIVE ApplyActions(_, _, _)
ApplyActions(result, actions, from) ==
    IF from > Len(actions) THEN result
    ELSE ApplyActions(ApplyTransform(result, actions[from]), actions, from + 1)

\* for (const mod of modifiers) if (isConditionMet(selection, mod.if)) ...
RECURSIVE ApplyFrom(_, _, _, _)
ApplyFrom(result, sel, mods, from) ==
    IF from > Len(mods) THEN result
    ELSE ApplyFrom(IF ModifierConditionMet(sel, mods[from].if)
                   THEN ApplyActions(result, mods[from].then, 1)
                   ELSE result,
                   sel, mods, from + 1)

\* the loops write into the caller's object (no spread)
BaseAfterCall_Aliased(base, result) == result

\* const result = { ...baseProduct }: the loops assign fields of the copy,
\* so the caller's object is, after the call, what it was before
BaseAfterCall(base, result) == base

\* a loop that walks the modifier list from its end
applyModifiers_Reversed(base, sel, mods) ==
    ApplyFrom(base, sel, [i \in 1..Len(mods) |-> mods[Len(mods) + 1 - i]], 1)

applyModifiers(base, sel, mods) == ApplyFrom(base, sel, mods, 1)

(***************************************************************************)
(* Inputs.                                                                 *)
(***************************************************************************)
TypeNames == <<"Color", "Size", "Material", "Finish", "Trim">>

\* all sequences over pool of length 0..n
SeqsUpTo(pool, n) == UNION {[1..k -> pool] : k \in 0..n}

\* the number of combinations of the axes that have options
RECURSIVE Combos(_)
Combos(optionLists) ==
    IF optionLists = <<>> THEN 1
    ELSE (IF Head(optionLists) = <<>> THEN 1 ELSE Len(Head(optionLists))) * Combos(Tail(optionLists))

\* variant type lists of 0..maxTypes axes, axis i named TypeNames[i], its
\* options any sequence of at most maxOptions values of pool, with at most
\* MaxCombos combinations in all
TypeListsOver(pool, maxTypes, maxOptions) ==
    {ol \in UNION {[1..n -> SeqsUpTo(pool, maxOptions)] : n \in 0..maxTypes} :
        Combos(ol) <= MaxCombos}

AsTypes(optionLists) ==
    [i \in 1..Len(optionLists) |-> [value |-> TypeNames[i], variantOptions |-> optionLists[i]]]

\* option values the generator distinguishes: usable text and blank text
GenOptionValues == {<<"R">>, <<" ">>}

NoReconcile == [children |-> <<>>, dropped |-> <<>>]
NoValidation == [valid |-> TRUE, blockedBy |-> <<>>]

\* getAvailableOptions, isConditionMet and applyModifiers have not been called
QueriesIdle ==
    /\ variantType = [value |-> "", variantOptions |-> <<>>]
    /\ available = <<>>
    /\ logicCondition = Group("AND", <<>>)
    /\ conditionMet = FALSE
    /\ baseProduct = <<>>
    /\ modifiers = <<>>
    /\ derived = <<>>

\* toVariantKey and parseVariantKey have not been called on their own
CodecIdle ==
    /\ indexTuple = <<>>
    /\ keySep = <<>>
    /\ keyText = <<>>
    /\ parsed = <<>>

\* generateChildVariants and reconcileChildVariants have not been called
GeneratorIdle ==
    /\ variantTypes = <<>>
    /\ existing = <<>>
    /\ filterInvalidTitles = TRUE
    /\ useFactory = FALSE
    /\ children = <<>>
    /\ previousVariantTypes = <<>>
    /\ nextVariantTypes = <<>>
    /\ trimMatch = TRUE
    /\ reconciled = NoReconcile

(***************************************************************************)
(* Fresh generation: generateChildVariants(variantTypes, {filterInvalidTitles}) *)
(***************************************************************************)
InitGen ==
    /\ pc = "generate"
    /\ \E ol \in TypeListsOver(GenOptionValues, MaxTypes, MaxOptions) : variantTypes = AsTypes(ol)
    /\ existing = <<>>
    /\ filterInvalidTitles \in BOOLEAN
    /\ useFactory = FALSE
    /\ children = <<>>
    /\ previousVariantTypes = <<>>
    /\ nextVariantTypes = <<>>
    /\ trimMatch = TRUE
    /\ reconciled = NoReconcile
    /\ selection = <<>>
    /\ constraints = <<>>
    /\ validation = NoValidation
    /\ QueriesIdle
    /\ CodecIdle

GenerateChildVariants ==
    /\ pc = "generate"
    /\ children' = generateChildVariants(variantTypes, existing, useFactory, filterInvalidTitles)
    /\ pc' = "generated"
    /\ UNCHANGED <<variantTypes, existing, filterInvalidTitles, useFactory,
                   previousVariantTypes, nextVariantTypes, trimMatch, reconciled,
                   selection, constraints, validation>>
    /\ UNCHANGED queryVars
    /\ UNCHANGED codecVars

NextGen == GenerateChildVariants

SpecGen == InitGen /\ [][NextGen]_vars

(***************************************************************************)
(* Generation over existing records:                                       *)
(* generateChildVariants(variantTypes, {existing, createDefault, ...})     *)
(***************************************************************************)
\* the n-th record a user has filled in, stored under key
UserRecord(key, n) ==
    [variantKey |-> key, title |-> <<>>, sku |-> <<"X", Digits[n + 1]>>, cost |-> 10 * n,
     stock |-> n, imageIds |-> <<n>>]

ExistingKeys == {toVariantKey(<<1>>, KeySeparator), toVariantKey(<<1, 2>>, KeySeparator)}

ExistingLists ==
    {[i \in 1..Len(keys) |-> UserRecord(keys[i], i)] : keys \in SeqsUpTo(ExistingKeys, MaxExisting)}

InitMerge ==
    /\ pc = "generate"
    /\ \E ol \in TypeListsOver(GenOptionValues, MaxMergeTypes, MaxOptions) : variantTypes = AsTypes(ol)
    /\ existing \in ExistingLists
    /\ filterInvalidTitles \in BOOLEAN
    /\ useFactory \in BOOLEAN
    /\ children = <<>>
    /\ previousVariantTypes = <<>>
    /\ nextVariantTypes = <<>>
    /\ trimMatch = TRUE
    /\ reconciled = NoReconcile
    /\ selection = <<>>
    /\ constraints = <<>>
    /\ validation = NoValidation
    /\ QueriesIdle
    /\ CodecIdle

SpecMerge == InitMerge /\ [][NextGen]_vars

(***************************************************************************)
(* Properties of the combination generator.                                *)
(***************************************************************************)
RECURSIVE Product(_)
Product(counts) == IF counts = <<>> THEN 1 ELSE Head(counts) * Product(Tail(counts))

\* [1..c1] x ... x [1..cn]
IndexTuples(counts) == {t \in [1..Len(counts) -> 1..MaxOptions + 1] : \A i \in 1..Len(counts) : t[i] <= counts[i]}

\* numeric lexicographic order of two index tuples of the same length
LexLess(s, t) ==
    \E i \in 1..Len(s) : s[i] < t[i] /\ \A j \in 1..(i - 1) : s[j] = t[j]

ChildKeys(cs) == [i \in 1..Len(cs) |-> cs[i].variantKey]

AllAxesHaveOptions(types) == \A i \in 1..Len(types) : Len(types[i].variantOptions) >= 1

SomeAxisIsEmpty(types) == \E i \in 1..Len(types) : Len(types[i].variantOptions) = 0

C1Case ==
    /\ pc = "generated"
    /\ variantTypes # <<>>
    /\ AllAxesHaveOptions(variantTypes)
    /\ ~filterInvalidTitles
    /\ existing = <<>>

\* C1: unfiltered and with no existing records, a non-empty type list whose
\* axes all have options yields exactly c1*...*cn children, one per index
\* tuple of [1..c1] x ... x [1..cn], with pairwise distinct keys, in
\* ascending numeric lexicographic order of the index tuples.
C1_FullProductSorted ==
    C1Case =>
        LET counts == OptionCounts(variantTypes)
            keys == ChildKeys(children)
        IN  /\ Len(children) = Product(counts)
            /\ {keys[i] : i \in 1..Len(keys)} = {toVariantKey(t, KeySeparator) : t \in IndexTuples(counts)}
            /\ \A i, j \in 1..Len(keys) : i # j => keys[i] # keys[j]
            /\ \A i \in 1..(Len(keys) - 1) :
                   /\ LexLess(parseVariantKey(keys[i], KeySeparator), parseVariantKey(keys[i + 1], KeySeparator))
                   /\ sortVariantKeysAsc(keys[i], keys[i + 1], KeySeparator) < 0

C1_Witness ==
    /\ C1Case
    /\ Len(variantTypes) = MaxTypes
    /\ \A i \in 1..Len(variantTypes) : Len(variantTypes[i].variantOptions) = MaxOptions
    /\ Len(children) = Product(OptionCounts(variantTypes))

\* C2: an axis with zero options, in whatever position, makes
\* cartesianIndexProduct and generateChildVariants return nothing.
C2_EmptyAxisEmptiesProduct ==
    (pc = "generated" /\ SomeAxisIsEmpty(variantTypes)) =>
        /\ cartesianIndexProduct(OptionCounts(variantTypes)) = <<>>
        /\ children = <<>>

\* what does hold: an empty FIRST axis empties the product
C2_EmptyFirstAxisEmptiesProduct ==
    (pc = "generated" /\ variantTypes # <<>> /\ Len(variantTypes[1].variantOptions) = 0) =>
        /\ cartesianIndexProduct(OptionCounts(variantTypes)) = <<>>
        /\ children = <<>>

C7Case == pc = "generated" /\ children # <<>>

\* C7: every returned child whose key is the key of an existing record is
\* an existing record with that key, all fields unchanged; every other
\* returned child is the default for its key (cost null, stock null, sku "",
\* no images), or createDefault(key) when a factory is supplied.
C7_ExistingReusedElseDefault ==
    C7Case =>
        \A i \in 1..Len(children) :
            LET child == children[i] IN
            IF \E e \in 1..Len(existing) : existing[e].variantKey = child.variantKey
            THEN \E e \in 1..Len(existing) : existing[e] = child
            ELSE /\ child.cost = (IF useFactory THEN createDefault(child.variantKey).cost ELSE Null)
                 /\ child.stock = (IF useFactory THEN createDefault(child.variantKey).stock ELSE Null)
                 /\ child.sku = (IF useFactory THEN createDefault(child.variantKey).sku ELSE <<>>)
                 /\ child.imageIds = (IF useFactory THEN createDefault(child.variantKey).imageIds ELSE <<>>)

C7_Witness ==
    /\ C7Case
    /\ \E i, j \in 1..Len(children) :
           /\ \E e \in 1..Len(existing) : existing[e] = children[i]
           /\ \A e \in 1..Len(existing) : existing[e].variantKey # children[j].variantKey
           /\ children[j].sku = <<>>

(***************************************************************************)
(* Reconciliation:                                                         *)
(* reconcileChildVariants(previousVariantTypes, nextVariantTypes,          *)
(*                        {existing, filterInvalidTitles})                 *)
(***************************************************************************)
\* option values the reconciler distinguishes: two different texts and blank text
RecOptionValues == {<<"R">>, <<"B">>, <<" ">>}

\* the type lists the existing records were made for
PreviousTypeLists ==
    {AsTypes(ol) : ol \in
        {l \in TypeListsOver(RecOptionValues, MaxRecTypes, MaxOptions) :
            /\ l # <<>>
            /\ \A i \in 1..Len(l) : l[i] # <<>>
            /\ Combos(l) <= MaxRecCombos}}

\* records a user filled in for combinations of types, in any order and
\* possibly more than once
ExistingFor(types) ==
    LET keys == ChildKeys(generateChildVariants(types, <<>>, FALSE, FALSE))
    IN  {[i \in 1..Len(ks) |-> UserRecord(ks[i], i)] :
            ks \in SeqsUpTo({keys[i] : i \in 1..Len(keys)}, MaxExisting)}

InsertAt(seq, pos, x) == SubSeq(seq, 1, pos) \o <<x>> \o SubSeq(seq, pos + 1, Len(seq))

RemoveAt(seq, pos) == SubSeq(seq, 1, pos - 1) \o SubSeq(seq, pos + 1, Len(seq))

NewAxisName == "Material"

\* the edits of a type list: none, a new axis at any position, the axes in
\* another order, an axis removed, the options of one axis replaced
EditedTypeLists(types) ==
    {types}
    \cup {InsertAt(types, pos, [value |-> NewAxisName, variantOptions |-> <<v>>]) :
            pos \in 0..Len(types), v \in RecOptionValues}
    \cup {[i \in 1..Len(types) |-> types[Len(types) + 1 - i]]}
    \cup {RemoveAt(types, pos) : pos \in 1..Len(types)}
    \cup {[types EXCEPT ![pos].variantOptions = ol] :
            pos \in 1..Len(types), ol \in SeqsUpTo(RecOptionValues, MaxOptions)}

InitRec ==
    /\ pc = "reconcile"
    /\ previousVariantTypes \in PreviousTypeLists
    /\ existing \in ExistingFor(previousVariantTypes)
    /\ nextVariantTypes \in EditedTypeLists(previousVariantTypes)
    /\ filterInvalidTitles \in BOOLEAN
    /\ useFactory = FALSE
    /\ trimMatch = TRUE
    /\ reconciled = NoReconcile
    /\ variantTypes = <<>>
    /\ children = <<>>
    /\ selection = <<>>
    /\ constraints = <<>>
    /\ validation = NoValidation
    /\ QueriesIdle
    /\ CodecIdle

ReconcileChildVariants ==
    /\ pc = "reconcile"
    /\ reconciled' = reconcileChildVariants(previousVariantTypes, nextVariantTypes, existing,
                                            useFactory, filterInvalidTitles, trimMatch)
    /\ pc' = "reconciled"
    /\ UNCHANGED <<variantTypes, existing, filterInvalidTitles, useFactory, children,
                   previousVariantTypes, nextVariantTypes, trimMatch,
                   selection, constraints, validation>>
    /\ UNCHANGED queryVars
    /\ UNCHANGED codecVars

NextRec == ReconcileChildVariants

SpecRec == InitRec /\ [][NextRec]_vars

(***************************************************************************)
(* Properties of the reconciler.                                           *)
(***************************************************************************)
ValuesOf(child, types) == variantKeyToValues(child.variantKey, types, KeySeparator)

\* same sku, cost, stock (and title, imageIds): everything but the key
SameNonKeyFields(a, b) == [a EXCEPT !.variantKey = <<>>] = [b EXCEPT !.variantKey = <<>>]

IsDropped(rec) == \E d \in 1..Len(reconciled.dropped) : reconciled.dropped[d] = rec

IsBlank(v) == Trim(v) = <<>>

NoBlankOptions(types) ==
    \A i \in 1..Len(types) : \A k \in 1..Len(types[i].variantOptions) :
        ~IsBlank(types[i].variantOptions[k])

DistinctKeys(recs) == \A i, j \in 1..Len(recs) : i # j => recs[i].variantKey # recs[j].variantKey

C3Case ==
    /\ pc = "reconciled"
    /\ NoBlankOptions(nextVariantTypes)
    /\ DistinctKeys(existing)
    /\ Len(nextVariantTypes) = Len(previousVariantTypes) + 1
    /\ Tail(nextVariantTypes) = previousVariantTypes
    /\ existing # <<>>

\* C3: with one new axis inserted at position 0 (no blank option value
\* anywhere, no two existing records with one key), every existing record is
\* re-attached: some child has the
\* record's option values on the old axes and the record's sku, cost and
\* stock, and the record is not dropped.
C3_InsertedAxisKeepsRecords ==
    C3Case =>
        \A e \in 1..Len(existing) :
            /\ \E c \in 1..Len(reconciled.children) :
                   /\ Tail(ValuesOf(reconciled.children[c], nextVariantTypes))
                          = ValuesOf(existing[e], previousVariantTypes)
                   /\ SameNonKeyFields(reconciled.children[c], existing[e])
            /\ ~IsDropped(existing[e])

Reversed(seq) == [i \in 1..Len(seq) |-> seq[Len(seq) + 1 - i]]

C4Case ==
    /\ pc = "reconciled"
    /\ NoBlankOptions(nextVariantTypes)
    /\ DistinctKeys(existing)
    /\ Len(previousVariantTypes) > 1
    /\ nextVariantTypes = Reversed(previousVariantTypes)
    /\ existing # <<>>

\* C4: with the same axes and options in another axis order (no blank
\* option value anywhere, no two existing records with one key), every
\* existing record is re-attached to the combination of the same option
\* values and nothing is dropped.
C4_AxisReorderKeepsRecords ==
    C4Case =>
        /\ reconciled.dropped = <<>>
        /\ \A e \in 1..Len(existing) :
               \E c \in 1..Len(reconciled.children) :
                   /\ ValuesOf(reconciled.children[c], nextVariantTypes)
                          = Reversed(ValuesOf(existing[e], previousVariantTypes))
                   /\ SameNonKeyFields(reconciled.children[c], existing[e])

\* the option values of an axis differ pairwise once normalized for matching
DistinctOptions(type) ==
    \A i, j \in 1..Len(type.variantOptions) :
        i # j => NormalizeValue(type.variantOptions[i], CaseInsensitiveMatch, trimMatch)
                 # NormalizeValue(type.variantOptions[j], CaseInsensitiveMatch, trimMatch)

OptionSet(type) == {type.variantOptions[i] : i \in 1..Len(type.variantOptions)}

\* same axes in the same order; each axis keeps all its options, reordered
\* or with new ones inserted; option values pairwise distinct per axis
C5Case ==
    /\ pc = "reconciled"
    /\ Len(nextVariantTypes) = Len(previousVariantTypes)
    /\ \A i \in 1..Len(previousVariantTypes) :
           /\ nextVariantTypes[i].value = previousVariantTypes[i].value
           /\ DistinctOptions(previousVariantTypes[i])
           /\ DistinctOptions(nextVariantTypes[i])
           /\ OptionSet(previousVariantTypes[i]) \subseteq OptionSet(nextVariantTypes[i])

\* the key, under the next types, of the combination with these option values
KeyOfValues(values, types) ==
    toVariantKey([i \in 1..Len(values) |->
                     CHOOSE k \in 1..Len(types[i].variantOptions) :
                         types[i].variantOptions[k] = values[i]],
                 KeySeparator)

ChildrenWithValues(values) ==
    {c \in 1..Len(reconciled.children) :
        ValuesOf(reconciled.children[c], nextVariantTypes) = values}

CarriedExactly(rec) ==
    LET values == ValuesOf(rec, previousVariantTypes)
        at == ChildrenWithValues(values)
    IN  /\ Cardinality(at) = 1
        /\ \A c \in at :
               reconciled.children[c] = [rec EXCEPT !.variantKey = KeyOfValues(values, nextVariantTypes)]

\* C5 as stated: under C5Case every existing record is carried onto exactly
\* the child with the same option values, whose key is the new index tuple
\* and whose other fields are the record's, and nothing is dropped.
C5_OptionEditsKeepEveryRecord ==
    C5Case =>
        /\ reconciled.dropped = <<>>
        /\ \A e \in 1..Len(existing) : CarriedExactly(existing[e])

\* the label generateChildVariants tests for a combination of these values
LabelOfValues(values, types) ==
    IF Len(types) > 1 THEN Join(values, LabelSeparator) ELSE Join(values, <<>>)

PassesTitleFilter(rec) ==
    \/ ~filterInvalidTitles
    \/ isUsableLabel(LabelOfValues(ValuesOf(rec, previousVariantTypes), previousVariantTypes),
                     LabelSeparator)

FirstWithItsValues(e) ==
    \A j \in 1..(e - 1) :
        ValuesOf(existing[j], previousVariantTypes) # ValuesOf(existing[e], previousVariantTypes)

\* C5 amended: under C5Case every existing record that is the first in
\* `existing` with its option values and whose combination passes the title
\* filter is carried onto exactly the child with the same option values
\* (key the new index tuple, other fields the record's); `dropped` is
\* exactly the existing records whose combination the title filter removes.
C5_OptionEditsKeepUsableRecords ==
    C5Case =>
        /\ \A e \in 1..Len(existing) :
               (PassesTitleFilter(existing[e]) /\ FirstWithItsValues(e)) => CarriedExactly(existing[e])
        /\ reconciled.dropped = SelectSeq(existing, LAMBDA rec : ~PassesTitleFilter(rec))

C5_Witness ==
    /\ C5Case
    /\ nextVariantTypes # previousVariantTypes
    /\ reconciled.dropped = <<>>
    /\ \E e \in 1..Len(existing) :
           /\ CarriedExactly(existing[e])
           /\ KeyOfValues(ValuesOf(existing[e], previousVariantTypes), nextVariantTypes)
                  # existing[e].variantKey

KeptSignatures ==
    {SignatureOf(reconciled.children[c], nextVariantTypes, trimMatch) :
        c \in 1..Len(reconciled.children)}

NormalizedOptionValues(types) ==
    UNION {{NormalizeValue(types[i].variantOptions[k], CaseInsensitiveMatch, trimMatch) :
               k \in 1..Len(types[i].variantOptions)} : i \in 1..Len(types)}

HasVanishedValue(rec) ==
    LET values == ValuesOf(rec, previousVariantTypes) IN
    \E i \in 1..Len(values) :
        NormalizeValue(values[i], CaseInsensitiveMatch, trimMatch)
            \notin NormalizedOptionValues(nextVariantTypes)

\* C6: `dropped` is, in the order of `existing`, exactly the existing
\* records whose signature under the previous types is the signature of no
\* child kept in `children` under the next types; so a record one of whose
\* option values no longer exists in the next types is dropped.
C6_DroppedAreTheUnmatched ==
    pc = "reconciled" =>
        /\ reconciled.dropped =
               SelectSeq(existing, LAMBDA rec :
                   SignatureOf(rec, previousVariantTypes, trimMatch) \notin KeptSignatures)
        /\ \A e \in 1..Len(existing) : HasVanishedValue(existing[e]) => IsDropped(existing[e])

C6_Witness ==
    /\ pc = "reconciled"
    /\ Len(existing) = 2
    /\ Len(reconciled.dropped) = 1
    /\ reconciled.dropped[1] = existing[2]
    /\ HasVanishedValue(existing[2])
    /\ \E c \in 1..Len(reconciled.children) : SameNonKeyFields(reconciled.children[c], existing[1])

(***************************************************************************)
(* Validation: validateSelection(selection, constraints)                   *)
(***************************************************************************)
ValTypes == {"Color", "Size"}
ValOptions == {"Red", "Blue"}

\* partial or complete selections, of the fields the validator reads
Selections == SeqsUpTo([typeValue : ValTypes, optionValue : ValOptions], MaxSelection)

\* conditions that hold and fail in different ways: a leaf with the operator
\* left out and a nested group
ValConditions ==
    {Leaf("Color", Text("Red"), Undefined),
     Group("OR", <<Leaf("Color", Array(<<"Blue">>), "in"),
                   Group("AND", <<Leaf("Size", Text("Red"), "not_equals")>>)>>)}

ValRules ==
    [typeValue : ValTypes, action : {"allow", "disallow"}, options : {<<"Red">>, <<"Blue", "Red">>}]

ConstraintIds == <<"c1", "c2", "c3", "c4">>

ConstraintLists ==
    {[i \in 1..Len(body) |-> [id |-> ConstraintIds[i], if |-> body[i][1], then |-> body[i][2]]] :
        body \in SeqsUpTo(ValConditions \X ValRules, MaxConstraints)}

InitVal ==
    /\ pc = "validate"
    /\ selection \in Selections
    /\ constraints \in ConstraintLists
    /\ validation = NoValidation
    /\ variantTypes = <<>>
    /\ existing = <<>>
    /\ filterInvalidTitles = TRUE
    /\ useFactory = FALSE
    /\ children = <<>>
    /\ previousVariantTypes = <<>>
    /\ nextVariantTypes = <<>>
    /\ trimMatch = TRUE
    /\ reconciled = NoReconcile
    /\ QueriesIdle
    /\ CodecIdle

ValidateSelection ==
    /\ pc = "validate"
    /\ validation' = validateSelection(selection, constraints)
    /\ pc' = "validated"
    /\ UNCHANGED <<variantTypes, existing, filterInvalidTitles, useFactory, children,
                   previousVariantTypes, nextVariantTypes, trimMatch, reconciled,
                   selection, constraints>>
    /\ UNCHANGED queryVars
    /\ UNCHANGED codecVars

NextVal == ValidateSelection

SpecVal == InitVal /\ [][NextVal]_vars

(***************************************************************************)
(* Properties of the constraint validator.                                 *)
(***************************************************************************)
IsBlockedBy(id) == \E b \in 1..Len(validation.blockedBy) : validation.blockedBy[b] = id

\* the selection's entry for the constraint's target type breaks its rule
EntryBreaksRule(constraint) ==
    LET val == SelectedItem(selection, constraint.then.typeValue).optionValue
        listed == \E k \in 1..Len(constraint.then.options) : constraint.then.options[k] = val
    IN  \/ constraint.then.action = "allow" /\ ~listed
        \/ constraint.then.action = "disallow" /\ listed

ShouldBlock(constraint) ==
    /\ isConditionMet(selection, constraint.if)
    /\ IsSelected(selection, constraint.then.typeValue)
    /\ EntryBreaksRule(constraint)

\* C8: blockedBy is, in constraint-list order, the ids of exactly the
\* constraints whose `if` holds, whose target type is selected and whose
\* rule the selected option violates; valid iff blockedBy is empty; a
\* blocking constraint does not stop later ones from being reported.
C8_BlockedByAllViolated ==
    pc = "validated" =>
        LET blocking == SelectSeq(constraints, ShouldBlock)
        IN  /\ validation.blockedBy = [i \in 1..Len(blocking) |-> blocking[i].id]
            /\ validation.valid <=> (validation.blockedBy = <<>>)

C8_Witness ==
    /\ pc = "validated"
    /\ Len(constraints) = MaxConstraints
    /\ \A i \in 1..Len(constraints) : ShouldBlock(constraints[i])
    /\ Len(validation.blockedBy) = MaxConstraints
    /\ ~validation.valid

\* C9: a constraint whose target type has no entry in the selection is not
\* in blockedBy, even when its `if` holds.
C9_UnselectedTargetNeverBlocks ==
    pc = "validated" =>
        \A i \in 1..Len(constraints) :
            ~IsSelected(selection, constraints[i].then.typeValue) => ~IsBlockedBy(constraints[i].id)

C9_Witness ==
    /\ pc = "validated"
    /\ \E i \in 1..Len(constraints) :
           /\ isConditionMet(selection, constraints[i].if)
           /\ ~IsSelected(selection, constraints[i].then.typeValue)
           /\ ~IsBlockedBy(constraints[i].id)

Flipped(constraint) ==
    [constraint EXCEPT !.then.action = IF @ = "allow" THEN "disallow" ELSE "allow"]

C10Case(constraint) ==
    /\ pc = "validated"
    /\ isConditionMet(selection, constraint.if)
    /\ IsSelected(selection, constraint.then.typeValue)

\* C10: when a constraint's `if` holds and its target type is selected, it
\* blocks iff the same constraint with the other action does not; under
\* allow it blocks iff the selected option is absent from the list, under
\* disallow iff it is present.
C10_AllowDisallowComplement ==
    \A i \in 1..Len(constraints) :
        LET c == constraints[i]
            val == SelectedItem(selection, c.then.typeValue).optionValue
            listed == val \in {c.then.options[k] : k \in 1..Len(c.then.options)}
        IN  C10Case(c) =>
                /\ IsBlockedBy(c.id) <=> validateSelection(selection, <<Flipped(c)>>).valid
                /\ c.then.action = "allow" => (IsBlockedBy(c.id) <=> ~listed)
                /\ c.then.action = "disallow" => (IsBlockedBy(c.id) <=> listed)

C10_Witness ==
    \E i, j \in 1..Len(constraints) :
        /\ C10Case(constraints[i]) /\ C10Case(constraints[j])
        /\ constraints[j].then = Flipped(constraints[i]).then
        /\ constraints[j].if = constraints[i].if
        /\ IsBlockedBy(constraints[i].id)
        /\ ~IsBlockedBy(constraints[j].id)

(***************************************************************************)
(* Option filtering: getAvailableOptions(variantType, selection, constraints) *)
(***************************************************************************)
\* rules that read the queried type itself, another type, and a group
AvailConstraintBodies ==
    {<<Leaf("Color", Text("Red"), Undefined), [typeValue |-> "Size", action |-> "allow", options |-> <<"Blue">>]>>,
     <<Leaf("Size", Array(<<"Red">>), "in"), [typeValue |-> "Size", action |-> "disallow", options |-> <<"Red">>]>>,
     <<Group("OR", <<Leaf("Size", Text("Blue"), "equals"), Leaf("Color", Text("Blue"), "not_equals")>>),
       [typeValue |-> "Color", action |-> "disallow", options |-> <<"Blue", "Red">>]>>}

AvailConstraintLists ==
    {[i \in 1..Len(body) |-> [id |-> ConstraintIds[i], if |-> body[i][1], then |-> body[i][2]]] :
        body \in SeqsUpTo(AvailConstraintBodies, MaxConstraints)}

QueriedTypes == [value : ValTypes, variantOptions : SeqsUpTo(ValOptions, MaxOptions)]

InitAvail ==
    /\ pc = "filter"
    /\ variantType \in QueriedTypes
    /\ selection \in Selections
    /\ constraints \in AvailConstraintLists
    /\ available = <<>>
    /\ validation = NoValidation
    /\ logicCondition = Group("AND", <<>>)
    /\ conditionMet = FALSE
    /\ baseProduct = <<>>
    /\ modifiers = <<>>
    /\ derived = <<>>
    /\ GeneratorIdle
    /\ CodecIdle

GetAvailableOptions ==
    /\ pc = "filter"
    /\ available' = getAvailableOptions(variantType, selection, constraints)
    /\ pc' = "filtered"
    /\ UNCHANGED <<variantTypes, existing, filterInvalidTitles, useFactory, children,
                   previousVariantTypes, nextVariantTypes, trimMatch, reconciled,
                   selection, constraints, validation, variantType,
                   logicCondition, conditionMet, baseProduct, modifiers, derived>>
    /\ UNCHANGED codecVars

NextAvail == GetAvailableOptions

SpecAvail == InitAvail /\ [][NextAvail]_vars

(***************************************************************************)
(* Properties of the option filter.                                        *)
(***************************************************************************)
\* the selection with every entry for the type removed and (type, o) added,
\* written without the filter's own helper
Replaced(sel, typeValue, o) ==
    LET others == {i \in 1..Len(sel) : sel[i].typeValue # typeValue}
        rank(i) == Cardinality({j \in others : j <= i})
        kept == [k \in 1..Cardinality(others) |-> sel[CHOOSE i \in others : rank(i) = k]]
    IN  kept \o <<[typeValue |-> typeValue, optionValue |-> o]>>

StaysValid(o) == validateSelection(Replaced(selection, variantType.value, o), constraints).valid

NoConditionHoldsFor(o) ==
    \A c \in 1..Len(constraints) :
        ~isConditionMet(Replaced(selection, variantType.value, o), constraints[c].if)

\* the current selection with its entries for the queried type set to o
Reselected(o) ==
    [i \in 1..Len(selection) |->
        IF selection[i].typeValue = variantType.value
        THEN [selection[i] EXCEPT !.optionValue = o] ELSE selection[i]]

\* C11: getAvailableOptions returns, in the type's option order, exactly the
\* options o for which validateSelection is valid on the selection with
\* every entry for the type removed and (type, o) added; the result is the
\* same whichever option of the type the current selection holds; and an
\* option for whose hypothetical selection no constraint's condition holds
\* is returned (so all are, when that is so for every option).
C11_AvailableAreTheValidOptions ==
    pc = "filtered" =>
        /\ available = SelectSeq(variantType.variantOptions, StaysValid)
        /\ \A o \in ValOptions :
               available = getAvailableOptions(variantType, Reselected(o), constraints)
        /\ (\A k \in 1..Len(variantType.variantOptions) :
                NoConditionHoldsFor(variantType.variantOptions[k]))
               => available = variantType.variantOptions

C11_Witness ==
    /\ pc = "filtered"
    /\ Len(variantType.variantOptions) = 2
    /\ available = <<variantType.variantOptions[2]>>
    /\ IsSelected(selection, variantType.value)
    /\ SelectedItem(selection, variantType.value).optionValue = variantType.variantOptions[1]
    /\ Len(selection) = 2
    /\ Len(constraints) > 0

(***************************************************************************)
(* Condition evaluation: isConditionMet(selection, condition)              *)
(***************************************************************************)
LeafTargets ==
    {Text("Red"), Text("Blue"), Array(<<>>), Array(<<"Red">>), Array(<<"Blue", "Red">>)}

LeafOperators == {Undefined, "equals", "not_equals", "in", "not_in"}

Leaves == {Leaf(t, target, op) : t \in ValTypes, target \in LeafTargets, op \in LeafOperators}

\* the leaves the groups are built from
GroupLeaves == {Leaf("Color", Text("Red"), "equals"), Leaf("Size", Array(<<"Blue">>), "not_in")}

\* AND/OR groups of no, one or two children drawn from pool, at most one of
\* two children being itself a group
GroupsOver(pool) ==
    {Group(op, cs) :
        op \in {"AND", "OR"},
        cs \in {<<>>} \cup {<<x>> : x \in pool}
                \cup {<<x, l>> : x \in pool, l \in GroupLeaves}
                \cup {<<l, x>> : x \in pool, l \in GroupLeaves}}

\* the leaves and the groups nested at most depth deep
RECURSIVE ConditionsUpTo(_)
ConditionsUpTo(depth) ==
    IF depth = 0 THEN GroupLeaves
    ELSE ConditionsUpTo(depth - 1) \cup GroupsOver(ConditionsUpTo(depth - 1))

Conditions == Leaves \cup ConditionsUpTo(MaxDepth)

InitCond ==
    /\ pc = "evaluate"
    /\ selection \in Selections
    /\ logicCondition \in Conditions
    /\ conditionMet = FALSE
    /\ constraints = <<>>
    /\ validation = NoValidation
    /\ variantType = [value |-> "", variantOptions |-> <<>>]
    /\ available = <<>>
    /\ baseProduct = <<>>
    /\ modifiers = <<>>
    /\ derived = <<>>
    /\ GeneratorIdle
    /\ CodecIdle

IsConditionMet ==
    /\ pc = "evaluate"
    /\ conditionMet' = isConditionMet(selection, logicCondition)
    /\ pc' = "evaluated"
    /\ UNCHANGED <<variantTypes, existing, filterInvalidTitles, useFactory, children,
                   previousVariantTypes, nextVariantTypes, trimMatch, reconciled,
                   selection, constraints, validation, variantType, available,
                   logicCondition, baseProduct, modifiers, derived>>
    /\ UNCHANGED codecVars

NextCond == IsConditionMet

SpecCond == InitCond /\ [][NextCond]_vars

(***************************************************************************)
(* Properties of the condition evaluator.                                  *)
(***************************************************************************)
SelectedTypes == {selection[i].typeValue : i \in 1..Len(selection)}

\* C12: a leaf on a type with no entry in the selection is false for every
\* operator (also left out) and every target.
C12_UnselectedLeafIsFalse ==
    (/\ pc = "evaluated"
     /\ isSimpleCondition(logicCondition)
     /\ logicCondition.typeValue \notin SelectedTypes) => ~conditionMet

C12_Witness ==
    /\ pc = "evaluated"
    /\ isSimpleCondition(logicCondition)
    /\ logicCondition.typeValue \notin SelectedTypes
    /\ selection # <<>>
    /\ logicCondition.operator = "not_equals"
    /\ ~conditionMet

\* what a condition tree says of a selection: groups read off their
\* children, leaves as the evaluator answers them
RECURSIVE Satisfied(_, _)
Satisfied(sel, c) ==
    IF c.typeValue # Undefined THEN isConditionMet(sel, c)
    ELSE IF c.operator = "AND"
         THEN c.conditions # <<>> /\ \A i \in 1..Len(c.conditions) : Satisfied(sel, c.conditions[i])
         ELSE \E i \in 1..Len(c.conditions) : Satisfied(sel, c.conditions[i])

\* C13: for a group of any nesting depth, AND is true iff the group has a
\* child and every child is true, OR is true iff some child is true, and an
\* empty group is false under either operator.
C13_GroupsFollowTheirChildren ==
    (pc = "evaluated" /\ ~isSimpleCondition(logicCondition)) =>
        /\ conditionMet = Satisfied(selection, logicCondition)
        /\ logicCondition.conditions = <<>> => ~conditionMet

C13_Witness ==
    /\ pc = "evaluated"
    /\ ~isSimpleCondition(logicCondition)
    /\ logicCondition.operator = "AND"
    /\ conditionMet
    /\ Len(logicCondition.conditions) = 2
    /\ \E i \in 1..2 :
           LET child == logicCondition.conditions[i] IN
           /\ ~isSimpleCondition(child)
           /\ child.operator = "OR"
           /\ Len(child.conditions) = 2
           /\ \E j \in 1..2 : ~isConditionMet(selection, child.conditions[j])

\* a leaf with an operator, on a type the selection has an entry for
SelectedLeafCase ==
    /\ pc = "evaluated"
    /\ isSimpleCondition(logicCondition)
    /\ logicCondition.typeValue \in SelectedTypes
    /\ logicCondition.operator # Undefined

\* the same leaf under the other operator of its pair
Complement(leaf) ==
    [leaf EXCEPT !.operator = CASE @ = "equals" -> "not_equals"
                                [] @ = "not_equals" -> "equals"
                                [] @ = "in" -> "not_in"
                                [] @ = "not_in" -> "in"]

\* C14 as stated: for a leaf on a selected type and any target, exactly one
\* of equals / not_equals holds and exactly one of in / not_in holds.
C14_ExactlyOneOfEachPair ==
    SelectedLeafCase => conditionMet # isConditionMet(selection, Complement(logicCondition))

\* C14 amended: for a leaf on a selected type, exactly one of equals /
\* not_equals holds for any target; exactly one of in / not_in holds when
\* the target is a list; when the target is a single string, in and not_in
\* are both false.
C14_ExactlyOneUnlessInOnString ==
    SelectedLeafCase =>
        IF logicCondition.operator \in {"in", "not_in"} /\ ~logicCondition.optionValue.isArray
        THEN ~conditionMet /\ ~isConditionMet(selection, Complement(logicCondition))
        ELSE conditionMet # isConditionMet(selection, Complement(logicCondition))

C14_Witness ==
    /\ SelectedLeafCase
    /\ logicCondition.operator = "not_in"
    /\ logicCondition.optionValue.isArray
    /\ Len(logicCondition.optionValue.items) = 2
    /\ ~conditionMet
    /\ isConditionMet(selection, Complement(logicCondition))

\* C15: a leaf without operator is evaluated as `in` when its optionValue
\* is a list (true iff the selected option is a member) and as `equals`
\* when it is a single string.
C15_OperatorInferredFromTarget ==
    (/\ pc = "evaluated"
     /\ isSimpleCondition(logicCondition)
     /\ logicCondition.operator = Undefined) =>
        LET target == logicCondition.optionValue
            inferred == IF target.isArray THEN "in" ELSE "equals"
            chosen == {selection[i].optionValue :
                          i \in {k \in 1..Len(selection) :
                                    /\ selection[k].typeValue = logicCondition.typeValue
                                    /\ \A j \in 1..(k - 1) :
                                           selection[j].typeValue # logicCondition.typeValue}}
            items == {target.items[k] : k \in 1..Len(target.items)}
        IN  /\ conditionMet = isConditionMet(selection, [logicCondition EXCEPT !.operator = inferred])
            /\ conditionMet <=> (chosen # {} /\ chosen \subseteq items)

C15_Witness ==
    /\ pc = "evaluated"
    /\ isSimpleCondition(logicCondition)
    /\ logicCondition.operator = Undefined
    /\ logicCondition.optionValue.isArray
    /\ Len(logicCondition.optionValue.items) = 2
    /\ conditionMet

(***************************************************************************)
(* Derivation: applyModifiers(baseProduct, selection, modifiers)           *)
(***************************************************************************)
\* a product whose cost is a number, null or missing
BaseProducts ==
    [cost : {Value("number", 3, <<>>), Value("null", 0, <<>>), Value("undefined", 0, <<>>)},
     sku : {Value("string", 0, <<"P">>)},
     stock : {Value("number", 1, <<>>)}]

Transforms ==
    [field : {"cost", "sku"},
     operation : {"add", "subtract", "multiply", "set"},
     value : {Value("number", 2, <<>>), Value("string", 0, <<"X">>)}]

\* against the selection Color = Red: one condition that holds, one that does not
ModifierConditions == {Leaf("Color", Text("Red"), Undefined), Leaf("Color", Array(<<"Blue">>), Undefined)}

\* the modifier lists that spread the actions ts, in order, over at most
\* MaxModifiers modifiers with a non-empty `then`
ModifierListsOf(ts) ==
    LET n == Len(ts)
        cuts == {c \in [1..n -> 1..MaxModifiers] :
                    /\ n > 0 => c[1] = 1
                    /\ \A i \in 1..(n - 1) : c[i + 1] \in {c[i], c[i] + 1}}
        count(c) == IF n = 0 THEN 0 ELSE c[n]
        first(c, m) == CHOOSE i \in 1..n : c[i] = m /\ \A j \in 1..(i - 1) : c[j] # m
        last(c, m) == CHOOSE i \in 1..n : c[i] = m /\ \A j \in (i + 1)..n : c[j] # m
    IN  UNION {{[m \in 1..count(c) |-> [if |-> conds[m], then |-> SubSeq(ts, first(c, m), last(c, m))]] :
                    conds \in [1..count(c) -> ModifierConditions]} : c \in cuts}

InitMod ==
    /\ pc = "apply"
    /\ baseProduct \in BaseProducts
    /\ selection = <<[typeValue |-> "Color", optionValue |-> "Red"]>>
    /\ \E ts \in SeqsUpTo(Transforms, MaxTransforms) : modifiers \in ModifierListsOf(ts)
    /\ derived = <<>>
    /\ constraints = <<>>
    /\ validation = NoValidation
    /\ variantType = [value |-> "", variantOptions |-> <<>>]
    /\ available = <<>>
    /\ logicCondition = Group("AND", <<>>)
    /\ conditionMet = FALSE
    /\ GeneratorIdle
    /\ CodecIdle

ApplyModifiers ==
    /\ pc = "apply"
    /\ derived' = applyModifiers(baseProduct, selection, modifiers)
    /\ baseProduct' = BaseAfterCall(baseProduct, derived')
    /\ pc' = "applied"
    /\ UNCHANGED <<variantTypes, existing, filterInvalidTitles, useFactory, children,
                   previousVariantTypes, nextVariantTypes, trimMatch, reconciled,
                   selection, constraints, validation, variantType, available,
                   logicCondition, conditionMet, modifiers>>
    /\ UNCHANGED codecVars

NextMod == ApplyModifiers

SpecMod == InitMod /\ [][NextMod]_vars

(***************************************************************************)
(* Properties of the modifier engine.                                      *)
(***************************************************************************)
\* the actions of the modifiers whose `if` holds for the selection, in
\* list order, from the from-th modifier on
RECURSIVE FiredActions(_)
FiredActions(from) ==
    IF from > Len(modifiers) THEN <<>>
    ELSE (IF isConditionMet(selection, modifiers[from].if) THEN modifiers[from].then ELSE <<>>)
         \o FiredActions(from + 1)

\* the record after the first k fired actions
RECURSIVE After(_)
After(k) == IF k = 0 THEN baseProduct ELSE ApplyTransform(After(k - 1), FiredActions(1)[k])

\* C16: applyModifiers is the left-to-right fold of the actions of the
\* modifiers that fire, each applied to the record as the earlier ones left
\* it; on a numeric field a numeric operand v turns the current x into
\* x+v, x-v, x*v or v and no other field changes.
C16_FoldInListOrder ==
    pc = "applied" =>
        /\ derived = After(Len(FiredActions(1)))
        /\ \A k \in 1..Len(FiredActions(1)) :
               LET a == FiredActions(1)[k]
                   x == After(k - 1)[a.field]
                   v == a.value
               IN  (x.type = "number" /\ v.type = "number") =>
                       /\ After(k)[a.field].type = "number"
                       /\ After(k)[a.field].num = CASE a.operation = "add" -> x.num + v.num
                                                     [] a.operation = "subtract" -> x.num - v.num
                                                     [] a.operation = "multiply" -> x.num * v.num
                                                     [] a.operation = "set" -> v.num
                       /\ \A g \in DOMAIN baseProduct \ {a.field} : After(k)[g] = After(k - 1)[g]

C16_Witness ==
    /\ pc = "applied"
    /\ Len(modifiers) = 2
    /\ Len(FiredActions(1)) = 2
    /\ baseProduct.cost.type = "number"
    /\ FiredActions(1)[1].operation = "subtract"
    /\ FiredActions(1)[2].operation = "multiply"
    /\ derived.cost = Value("number", (baseProduct.cost.num - 2) * 2, <<>>)

\* two modifiers that both fire, the first adding a # 0 to a numeric field
\* and the second multiplying the same field by m # 1
C17Case ==
    /\ pc = "applied"
    /\ Len(modifiers) = 2
    /\ \A i \in 1..2 : isConditionMet(selection, modifiers[i].if) /\ Len(modifiers[i].then) = 1
    /\ modifiers[1].then[1].field = modifiers[2].then[1].field
    /\ baseProduct[modifiers[1].then[1].field].type = "number"
    /\ modifiers[1].then[1].operation = "add"
    /\ modifiers[2].then[1].operation = "multiply"
    /\ \A i \in 1..2 : modifiers[i].then[1].value.type = "number"
    /\ modifiers[1].then[1].value.num # 0
    /\ modifiers[2].then[1].value.num # 1

C19Case(k) ==
    /\ pc = "applied"
    /\ k \in 1..Len(FiredActions(1))
    /\ After(k - 1)[FiredActions(1)[k].field].type = "number"
    /\ FiredActions(1)[k].value.type = "string"

\* C19: an action with a string operand on a field that holds a number
\* leaves the record as it was, whatever the operation, and applyModifiers
\* still returns a record with every field of the base.
C19_MismatchedOperandIsNoOp ==
    \A k \in 1..MaxTransforms :
        C19Case(k) =>
            /\ After(k) = After(k - 1)
            /\ derived = After(Len(FiredActions(1)))
            /\ DOMAIN derived = DOMAIN baseProduct

C19_Witness ==
    /\ C19Case(1)
    /\ Len(FiredActions(1)) = 2
    /\ FiredActions(1)[1].operation = "set"
    /\ FiredActions(1)[2].field = "cost"
    /\ FiredActions(1)[2].value = Value("number", 2, <<>>)
    /\ FiredActions(1)[2].operation = "add"
    /\ derived.cost = Value("number", 5, <<>>)

\* a fired action reaches a field that is null or undefined
C20Case(k) ==
    /\ pc = "applied"
    /\ k \in 1..Len(FiredActions(1))
    /\ After(k - 1)[FiredActions(1)[k].field].type \in {"null", "undefined"}

\* C20: on a field that is null or undefined, set and add make the field
\* the operand, subtract and multiply leave it absent; the next action of
\* the same call works on the value so left.
C20_AbsentFieldIsInitialized ==
    \A k \in 1..MaxTransforms :
        C20Case(k) =>
            LET a == FiredActions(1)[k] IN
            /\ After(k)[a.field] = IF a.operation \in {"set", "add"} THEN a.value
                                    ELSE After(k - 1)[a.field]
            /\ \A g \in DOMAIN baseProduct \ {a.field} : After(k)[g] = After(k - 1)[g]
            /\ derived = After(Len(FiredActions(1)))

C20_Witness ==
    /\ C20Case(1)
    /\ baseProduct.cost.type = "undefined"
    /\ Len(FiredActions(1)) = 2
    /\ FiredActions(1)[1].operation = "add"
    /\ FiredActions(1)[1].value = Value("number", 2, <<>>)
    /\ FiredActions(1)[2].operation = "multiply"
    /\ FiredActions(1)[2].value = Value("number", 2, <<>>)
    /\ derived.cost = Value("number", 4, <<>>)

\* a fired action reaches a field that holds a string
C21Case(k) ==
    /\ pc = "applied"
    /\ k \in 1..Len(FiredActions(1))
    /\ After(k - 1)[FiredActions(1)[k].field].type = "string"
    /\ FiredActions(1)[k].value.type \in {"string", "number"}

\* C21: on a field that holds a string, add appends the operand rendered
\* as text, set puts the operand rendered as text in its place, subtract
\* and multiply leave the field as it was, for a string operand and for a
\* numeric one alike; no other field changes.
C21_StringFieldAppendsOrReplaces ==
    \A k \in 1..MaxTransforms :
        C21Case(k) =>
            LET a == FiredActions(1)[k]
                x == After(k - 1)[a.field]
                text == IF a.value.type = "number" THEN NumberToString(a.value.num) ELSE a.value.str
            IN  /\ After(k)[a.field] =
                       CASE a.operation = "add" -> Value("string", 0, x.str \o text)
                         [] a.operation = "set" -> Value("string", 0, text)
                         [] a.operation \in {"subtract", "multiply"} -> x
                /\ \A g \in DOMAIN baseProduct \ {a.field} : After(k)[g] = After(k - 1)[g]
                /\ derived = After(Len(FiredActions(1)))

C21_Witness ==
    /\ C21Case(1)
    /\ C21Case(2)
    /\ FiredActions(1)[1] = [field |-> "sku", operation |-> "add", value |-> Value("string", 0, <<"X">>)]
    /\ FiredActions(1)[2] = [field |-> "sku", operation |-> "add", value |-> Value("number", 2, <<>>)]
    /\ derived.sku = Value("string", 0, <<"P", "X", "2">>)

(***************************************************************************)
(* Firing: applyModifiers with one modifier whose `if` is any condition    *)
(* the constraint subsystem accepts.                                       *)
(***************************************************************************)
InitFire ==
    /\ pc = "apply"
    /\ baseProduct = [cost |-> Value("number", 3, <<>>), sku |-> Value("string", 0, <<"P">>),
                      stock |-> Value("number", 1, <<>>)]
    /\ selection \in Selections
    /\ \E c \in Conditions :
           modifiers = <<[if |-> c,
                          then |-> <<[field |-> "cost", operation |-> "add",
                                      value |-> Value("number", 2, <<>>)]>>]>>
    /\ derived = <<>>
    /\ constraints = <<>>
    /\ validation = NoValidation
    /\ variantType = [value |-> "", variantOptions |-> <<>>]
    /\ available = <<>>
    /\ logicCondition = Group("AND", <<>>)
    /\ conditionMet = FALSE
    /\ GeneratorIdle
    /\ CodecIdle

SpecFire == InitFire /\ [][NextMod]_vars

\* the single modifier has left its mark on the derived record
Fired == derived.cost = Value("number", 5, <<>>)

\* C18 as stated: a modifier whose `if` is c fires iff the constraint
\* subsystem's isConditionMet(selection, c) is true, for every leaf
\* operator and every group.
C18_ModifiersShareTheEvaluator ==
    pc = "applied" => (Fired <=> isConditionMet(selection, modifiers[1].if))

\* C18 amended: a modifier fires iff its `if` is a leaf whose type is
\* selected and whose target is the selected option (a string) or contains
\* it (a list), whatever the operator; this is isConditionMet's answer for
\* a leaf whose type is unselected, whose operator is left out, is equals
\* on a string or is in on a list; a modifier whose `if` is a group never
\* fires.
C18_ModifiersMatchLeavesOnly ==
    pc = "applied" =>
        LET c == modifiers[1].if
            chosen == {selection[i].optionValue :
                          i \in {k \in 1..Len(selection) :
                                    /\ selection[k].typeValue = c.typeValue
                                    /\ \A j \in 1..(k - 1) : selection[j].typeValue # c.typeValue}}
            items == {c.optionValue.items[k] : k \in 1..Len(c.optionValue.items)}
            agreeing == \/ chosen = {}
                        \/ c.operator = Undefined
                        \/ c.operator = "equals" /\ ~c.optionValue.isArray
                        \/ c.operator = "in" /\ c.optionValue.isArray
        IN  /\ isSimpleCondition(c) => (Fired <=> (chosen # {} /\ chosen \subseteq items))
            /\ (isSimpleCondition(c) /\ agreeing) => (Fired <=> isConditionMet(selection, c))
            /\ ~isSimpleCondition(c) => ~Fired

C18_Witness ==
    /\ pc = "applied"
    /\ isSimpleCondition(modifiers[1].if)
    /\ modifiers[1].if.operator = "in"
    /\ Len(modifiers[1].if.optionValue.items) = 2
    /\ Len(selection) = 2
    /\ Fired
    /\ isConditionMet(selection, modifiers[1].if)

(***************************************************************************)
(* The title filter of generateChildVariants.                              *)
(***************************************************************************)
\* C22: with filterInvalidTitles on, no returned combination has an axis
\* whose option value is missing or blank, whatever the number of axes and
\* the position of the blank option (stated for type lists in which every
\* axis has an option, where the index product is the full one).
C22_NoBlankOptionSurvives ==
    (pc = "generated" /\ filterInvalidTitles /\ AllAxesHaveOptions(variantTypes)) =>
        \A c \in 1..Len(children) :
            LET indices == parseVariantKey(children[c].variantKey, KeySeparator)
            IN  \A t \in 1..Len(variantTypes) :
                    /\ t \in 1..Len(indices)
                    /\ indices[t] \in 1..Len(variantTypes[t].variantOptions)
                    /\ ~IsBlank(variantTypes[t].variantOptions[indices[t]])

(***************************************************************************)
(* Generation called again: with the same `existing`, and with the first   *)
(* call's output as `existing`.                                            *)
(***************************************************************************)
GenerateAgain ==
    /\ pc = "generated"
    /\ children' = generateChildVariants(variantTypes, existing, useFactory, filterInvalidTitles)
    /\ pc' = "repeated"
    /\ UNCHANGED <<variantTypes, existing, filterInvalidTitles, useFactory,
                   previousVariantTypes, nextVariantTypes, trimMatch, reconciled,
                   selection, constraints, validation>>
    /\ UNCHANGED queryVars
    /\ UNCHANGED codecVars

Regenerate ==
    /\ pc = "generated"
    /\ existing' = children
    /\ children' = generateChildVariants(variantTypes, children, useFactory, filterInvalidTitles)
    /\ pc' = "regenerated"
    /\ UNCHANGED <<variantTypes, filterInvalidTitles, useFactory,
                   previousVariantTypes, nextVariantTypes, trimMatch, reconciled,
                   selection, constraints, validation>>
    /\ UNCHANGED queryVars
    /\ UNCHANGED codecVars

NextAgain == GenerateChildVariants \/ GenerateAgain \/ Regenerate

SpecAgain == InitMerge /\ [][NextAgain]_vars

\* C23: a second call with the same types returns the sequence the first
\* call returned (same records in the same order), both when it is given the
\* same `existing` and when it is given the first call's output as
\* `existing`.
C23_GenerationIsIdempotent ==
    [][(pc = "generated" /\ pc' \in {"repeated", "regenerated"}) => children' = children]_vars

C23_Witness ==
    /\ pc = "regenerated"
    /\ useFactory
    /\ Len(children) = 2
    /\ existing = children
    /\ children[1].sku = <<"X", "2">>
    /\ children[2] = createDefault(<<"2">>)

(***************************************************************************)
(* The key codec on its own: toVariantKey, parseVariantKey and             *)
(* variantKeyToSelection with a caller-chosen separator.                   *)
(***************************************************************************)
\* the default separator and one that is a digit
KeySeparators == {<<"-">>, <<"1">>}

\* the characters a stored key is made of here: digits, the default
\* separator, a letter and a blank
KeyAlphabet == {"1", "2", "-", "a", " "}

\* two axes, of two options and of one
KeyTypes == AsTypes(<< <<<<"R">>, <<"B">>>>, <<<<"R">>>> >>)

InitKey ==
    /\ keySep \in KeySeparators
    /\ \/ /\ pc = "encode"
          /\ indexTuple \in UNION {[1..k -> 1..MaxIndex] : k \in 1..MaxTuple}
          /\ keyText = <<>>
       \/ /\ pc = "parse"
          /\ indexTuple = <<>>
          /\ keyText \in SeqsUpTo(KeyAlphabet, MaxKeyLen)
    /\ parsed = <<>>
    /\ variantTypes = KeyTypes
    /\ existing = <<>>
    /\ filterInvalidTitles = TRUE
    /\ useFactory = FALSE
    /\ children = <<>>
    /\ previousVariantTypes = <<>>
    /\ nextVariantTypes = <<>>
    /\ trimMatch = TRUE
    /\ reconciled = NoReconcile
    /\ selection = <<>>
    /\ constraints = <<>>
    /\ validation = NoValidation
    /\ QueriesIdle

ToVariantKey ==
    /\ pc = "encode"
    /\ keyText' = toVariantKey(indexTuple, keySep)
    /\ pc' = "parse"
    /\ UNCHANGED <<variantTypes, existing, filterInvalidTitles, useFactory, children,
                   previousVariantTypes, nextVariantTypes, trimMatch, reconciled,
                   selection, constraints, validation, indexTuple, keySep, parsed>>
    /\ UNCHANGED queryVars

ParseVariantKey ==
    /\ pc = "parse"
    /\ parsed' = parseVariantKey(keyText, keySep)
    /\ pc' = "parsed"
    /\ UNCHANGED <<variantTypes, existing, filterInvalidTitles, useFactory, children,
                   previousVariantTypes, nextVariantTypes, trimMatch, reconciled,
                   selection, constraints, validation, indexTuple, keySep, keyText>>
    /\ UNCHANGED queryVars

VariantKeyToSelection ==
    /\ pc = "parsed"
    /\ selection' = variantKeyToSelection(keyText, variantTypes, keySep)
    /\ pc' = "resolved"
    /\ UNCHANGED <<variantTypes, existing, filterInvalidTitles, useFactory, children,
                   previousVariantTypes, nextVariantTypes, trimMatch, reconciled,
                   constraints, validation>>
    /\ UNCHANGED queryVars
    /\ UNCHANGED codecVars

NextKey == ToVariantKey \/ ParseVariantKey \/ VariantKeyToSelection

SpecKey == InitKey /\ [][NextKey]_vars

\* the places of a one-character separator in text
Cuts(text, sep) == {i \in 1..Len(text) : text[i] = sep[1]}

\* the j-th stretch of text between two neighbouring separators
SegmentAt(text, sep, j) ==
    LET cut(n) == CHOOSE c \in Cuts(text, sep) : Cardinality({d \in Cuts(text, sep) : d < c}) = n - 1
        first == IF j = 1 THEN 1 ELSE cut(j - 1) + 1
        last == IF j = Cardinality(Cuts(text, sep)) + 1 THEN Len(text) ELSE cut(j) - 1
    IN  SubSeq(text, first, last)

\* text that, blanks around it aside, is a run of digits with an optional minus sign
IsNumeral(seg) ==
    LET t == Trim(seg)
        body == IF t # <<>> /\ t[1] = "-" THEN Tail(t) ELSE t
    IN  body # <<>> /\ \A i \in 1..Len(body) : IsDigit(body[i])

HasDigit(text) == \E i \in 1..Len(text) : IsDigit(text[i])

\* every index is resolved: to the option's value when the axis has that
\* option, to the empty string when it has not
ResolvedWithoutFailure ==
    pc = "resolved" =>
        /\ Len(selection) = Len(parsed)
        /\ \A i \in 1..Len(selection) :
               LET inRange == /\ i <= Len(variantTypes)
                              /\ parsed[i] \in 1..Len(variantTypes[i].variantOptions)
               IN  /\ selection[i].optionIndex1Based = parsed[i]
                   /\ selection[i].optionValue =
                          IF inRange THEN variantTypes[i].variantOptions[parsed[i]] ELSE <<>>

\* one integer per segment, 0 for a segment that is not a numeral
OnePerSegment ==
    /\ Len(parsed) = Cardinality(Cuts(keyText, keySep)) + 1
    /\ \A j \in 1..Len(parsed) :
           LET seg == SegmentAt(keyText, keySep, j)
           IN  /\ parsed[j] \in Int
               /\ IsNumeral(seg) => NumberToString(parsed[j]) = Trim(seg)
               /\ ~IsNumeral(seg) => parsed[j] = 0

\* C24 as stated: parseVariantKey(toVariantKey(t, sep), sep) = t for every
\* non-empty tuple t of positive integers and every separator; for any key
\* it returns one integer per separator-delimited segment, 0 for a
\* non-numeric one; variantKeyToSelection resolves a 0 or out-of-range
\* index to the empty string.
C24_ParseInvertsForEverySeparator ==
    /\ (pc \in {"parsed", "resolved"} /\ indexTuple # <<>>) => parsed = indexTuple
    /\ pc \in {"parsed", "resolved"} => OnePerSegment
    /\ ResolvedWithoutFailure

\* C24 amended: the round trip holds for a separator without a digit; the
\* empty key parses to the empty sequence and every other key to one number
\* per segment, 0 for a non-numeric one; variantKeyToSelection resolves a 0
\* or out-of-range index to the empty string.
C24_ParseInvertsForDigitFreeSeparator ==
    /\ (pc \in {"parsed", "resolved"} /\ indexTuple # <<>> /\ ~HasDigit(keySep)) =>
           parsed = indexTuple
    /\ (pc \in {"parsed", "resolved"} /\ keyText = <<>>) => parsed = <<>>
    /\ (pc \in {"parsed", "resolved"} /\ keyText # <<>>) => OnePerSegment
    /\ ResolvedWithoutFailure

C24_Witness ==
    /\ pc = "resolved"
    /\ keySep = <<"-">>
    /\ indexTuple = <<2, 11>>
    /\ keyText = <<"2", "-", "1", "1">>
    /\ parsed = <<2, 11>>
    /\ selection[1].optionValue = <<"B">>
    /\ selection[2].optionValue = <<>>

(***************************************************************************)
(* The constraint list in another order.                                   *)
(***************************************************************************)
\* validateSelection over lists of constraints that can block one another's
\* target types
InitOrder ==
    /\ pc = "validate"
    /\ selection \in Selections
    /\ constraints \in AvailConstraintLists
    /\ validation = NoValidation
    /\ GeneratorIdle
    /\ QueriesIdle
    /\ CodecIdle

SpecOrder == InitOrder /\ [][NextVal]_vars

\* the constraint list in every order
Reorderings ==
    LET n == Len(constraints)
        perms == {f \in [1..n -> 1..n] : \A i, j \in 1..n : f[i] = f[j] => i = j}
    IN  {[i \in 1..n |-> constraints[f[i]]] : f \in perms}

\* how often id occurs in ids
Occurrences(ids, id) == Cardinality({i \in 1..Len(ids) : ids[i] = id})

\* C25: for every order of the constraint list validateSelection gives
\* the same `valid` and a blockedBy with the same ids, each as often; and
\* getAvailableOptions gives the same options.
C25_ConstraintOrderIsImmaterial ==
    pc = "validated" =>
        \A cons \in Reorderings :
            LET other == validateSelection(selection, cons)
            IN  /\ other.valid = validation.valid
                /\ Len(other.blockedBy) = Len(validation.blockedBy)
                /\ \A c \in 1..Len(constraints) :
                       Occurrences(other.blockedBy, constraints[c].id)
                           = Occurrences(validation.blockedBy, constraints[c].id)
                /\ \A type \in [value : ValTypes, variantOptions : {<<"Red", "Blue">>}] :
                       getAvailableOptions(type, selection, cons)
                           = getAvailableOptions(type, selection, constraints)

C25_Witness ==
    /\ pc = "validated"
    /\ validation.blockedBy = <<"c1", "c2">>
    /\ \E cons \in Reorderings :
           /\ validateSelection(selection, cons).blockedBy = <<"c2", "c1">>
           /\ getAvailableOptions([value |-> "Size", variantOptions |-> <<"Red", "Blue">>],
                                  selection, cons) # <<"Red", "Blue">>

(***************************************************************************)
(* Further properties of the reconciler.                                   *)
(***************************************************************************)
\* child's option values match those of no existing record
IsUnmatched(child) ==
    \A e \in 1..Len(existing) :
        SignatureOf(existing[e], previousVariantTypes, trimMatch)
            # SignatureOf(child, nextVariantTypes, trimMatch)

\* C26: the children of a reconciliation have the keys, in the order, of
\* a fresh generation for the next types with the same options; a child
\* whose signature matches no existing record is the default for its key,
\* also when an existing record is stored under that key.
C26_ChildrenAreTheFreshCombinations ==
    pc = "reconciled" =>
        /\ ChildKeys(reconciled.children)
               = ChildKeys(generateChildVariants(nextVariantTypes, <<>>, useFactory, filterInvalidTitles))
        /\ \A c \in 1..Len(reconciled.children) :
               IsUnmatched(reconciled.children[c]) =>
                   reconciled.children[c] =
                       (IF useFactory THEN createDefault(reconciled.children[c].variantKey)
                        ELSE DefaultChild(reconciled.children[c].variantKey))

C26_Witness ==
    /\ pc = "reconciled"
    /\ Len(reconciled.children) = 2
    /\ IsUnmatched(reconciled.children[1])
    /\ ~IsUnmatched(reconciled.children[2])
    /\ \E e \in 1..Len(existing) : existing[e].variantKey = reconciled.children[1].variantKey
    /\ reconciled.children[1] = DefaultChild(<<"1">>)
    /\ reconciled.children[2].sku # <<>>

\* the e-th existing record is the first of `existing` with its signature
FirstWithItsSignature(e) ==
    \A j \in 1..(e - 1) :
        SignatureOf(existing[j], previousVariantTypes, trimMatch)
            # SignatureOf(existing[e], previousVariantTypes, trimMatch)

\* C27: a child whose signature is that of existing records has the
\* fields of the first of them in `existing`; a record that comes after
\* one with the same signature supplies the fields of no child.
C27_FirstOfASignatureWins ==
    pc = "reconciled" =>
        \A e \in 1..Len(existing) : \A c \in 1..Len(reconciled.children) :
            LET child == reconciled.children[c] IN
            /\ (/\ FirstWithItsSignature(e)
                /\ SignatureOf(child, nextVariantTypes, trimMatch)
                       = SignatureOf(existing[e], previousVariantTypes, trimMatch))
                   => SameNonKeyFields(child, existing[e])
            /\ ~FirstWithItsSignature(e) => ~SameNonKeyFields(child, existing[e])

C27_Witness ==
    /\ pc = "reconciled"
    /\ Len(existing) = 2
    /\ existing[1].variantKey # existing[2].variantKey
    /\ ~FirstWithItsSignature(2)
    /\ \E c \in 1..Len(reconciled.children) : SameNonKeyFields(reconciled.children[c], existing[1])
    /\ reconciled.dropped = <<>>

(***************************************************************************)
(* The frame of applyModifiers.                                            *)
(***************************************************************************)
\* the fields some fired action names
FiredFields == {FiredActions(1)[k].field : k \in 1..Len(FiredActions(1))}

IsCarried(rec) ==
    \E c \in 1..Len(reconciled.children) : SameNonKeyFields(reconciled.children[c], rec)

\* C29: every existing record is in `dropped` or has its non-key fields
\* carried by a child, also when existing records share a signature and
\* when an axis repeats an option value.
C29_EveryRecordDroppedOrCarried ==
    pc = "reconciled" =>
        \A e \in 1..Len(existing) : IsDropped(existing[e]) \/ IsCarried(existing[e])

(***************************************************************************)
(* Reconciliation against an unchanged type list:                          *)
(* reconcileChildVariants(types, types, {existing: a full set, ...})       *)
(***************************************************************************)
\* option values without a blank one, two of them equal up to a trailing blank
SameOptionValues == {<<"R">>, <<"R", " ">>, <<"B">>}

InitSame ==
    /\ pc = "reconcile"
    /\ \E ol \in TypeListsOver(SameOptionValues, MaxRecTypes, MaxOptions) :
           /\ ol # <<>>
           /\ \A i \in 1..Len(ol) : ol[i] # <<>>
           /\ Combos(ol) <= MaxRecCombos
           /\ previousVariantTypes = AsTypes(ol)
    /\ nextVariantTypes = previousVariantTypes
    /\ filterInvalidTitles \in BOOLEAN
    /\ trimMatch \in BOOLEAN
    /\ LET keys == ChildKeys(generateChildVariants(previousVariantTypes, <<>>, FALSE, filterInvalidTitles))
       IN  existing = [i \in 1..Len(keys) |-> UserRecord(keys[i], i)]
    /\ useFactory = FALSE
    /\ reconciled = NoReconcile
    /\ variantTypes = <<>>
    /\ children = <<>>
    /\ selection = <<>>
    /\ constraints = <<>>
    /\ validation = NoValidation
    /\ QueriesIdle
    /\ CodecIdle

SpecSame == InitSame /\ [][NextRec]_vars

\* the next types are the previous ones, without a blank option, and
\* there is one existing record for every generated combination, in order
C30Case ==
    /\ pc = "reconciled"
    /\ nextVariantTypes = previousVariantTypes
    /\ NoBlankOptions(previousVariantTypes)
    /\ ChildKeys(existing)
           = ChildKeys(generateChildVariants(previousVariantTypes, <<>>, FALSE, filterInvalidTitles))

\* C30 as stated: with option values that are pairwise distinct per axis,
\* the children are the existing records, field for field and in order,
\* and nothing is dropped.
C30_UnchangedTypesAreIdentity ==
    (/\ C30Case
     /\ \A t \in 1..Len(previousVariantTypes) :
            \A i, j \in 1..Len(previousVariantTypes[t].variantOptions) :
                i # j => previousVariantTypes[t].variantOptions[i]
                             # previousVariantTypes[t].variantOptions[j])
        => (reconciled.children = existing /\ reconciled.dropped = <<>>)

\* C30 amended: with option values that are pairwise distinct per axis as
\* the matching compares them (trimmed when trimMatch is on), the children
\* are the existing records, field for field and in order, and nothing is
\* dropped.
C30_UnchangedTypesAreIdentityIfDistinctAsMatched ==
    (C30Case /\ \A t \in 1..Len(previousVariantTypes) : DistinctOptions(previousVariantTypes[t]))
        => (reconciled.children = existing /\ reconciled.dropped = <<>>)

C30_Witness ==
    /\ C30Case
    /\ \A t \in 1..Len(previousVariantTypes) : DistinctOptions(previousVariantTypes[t])
    /\ trimMatch
    /\ Len(previousVariantTypes) = 2
    /\ Len(existing) = 2
    /\ reconciled.children = existing
    /\ reconciled.children[2].sku = <<"X", "2">>

====
